---- MODULE Spec2Model ----
(***************************************************************************)
(* A model of the HTTP cache policy engine of src/src/lib.rs               *)
(* (rusty-http-cache-semantics): Cache-Control parsing, construction of a  *)
(* CachePolicy, storability, age and freshness arithmetic, and the         *)
(* before_request decision.                                                *)
(*                                                                         *)
(* Representation.                                                         *)
(*  - A header value is a TLA+ string; the string operators below work on  *)
(*    its characters (Len, SubSeq), as the Rust str methods do.            *)
(*  - A HeaderMap is a function from lower-case header names to the        *)
(*    non-empty sequence of the values of that name, in order.             *)
(*  - Option<T> is a sequence of length 0 (None) or 1 (Some).              *)
(*  - A Duration is a whole number of seconds in 0 .. U64_MAX; a           *)
(*    SystemTime is a whole number of seconds since the epoch.             *)
(***************************************************************************)
EXTENDS Integers, Sequences, FiniteSets, TLC

None == <<>>
Some(v) == <<v>>
IsSome(o) == o # <<>>
Unwrap(o) == o[1]

(***************************************************************************)
(* str methods                                                             *)
(***************************************************************************)
\* char::is_whitespace on the characters a HeaderValue::to_str can yield
IsWhitespace(c) == c \in {" ", "\t"}

RECURSIVE TrimStart(_)
TrimStart(s) ==
  IF Len(s) > 0 /\ IsWhitespace(SubSeq(s, 1, 1))
  THEN TrimStart(SubSeq(s, 2, Len(s)))
  ELSE s

RECURSIVE TrimEnd(_)
TrimEnd(s) ==
  IF Len(s) > 0 /\ IsWhitespace(SubSeq(s, Len(s), Len(s)))
  THEN TrimEnd(SubSeq(s, 1, Len(s) - 1))
  ELSE s

Trim(s) == TrimEnd(TrimStart(s))

\* str::trim_matches(c): every leading and every trailing c is removed
RECURSIVE TrimMatches(_, _)
TrimMatches(s, c) ==
  IF Len(s) > 0 /\ SubSeq(s, 1, 1) = c THEN TrimMatches(SubSeq(s, 2, Len(s)), c)
  ELSE IF Len(s) > 0 /\ SubSeq(s, Len(s), Len(s)) = c
       THEN TrimMatches(SubSeq(s, 1, Len(s) - 1), c)
       ELSE s

\* str::trim_start_matches(p) for a pattern string p
RECURSIVE TrimStartMatches(_, _)
TrimStartMatches(s, p) ==
  IF Len(p) > 0 /\ Len(s) >= Len(p) /\ SubSeq(s, 1, Len(p)) = p
  THEN TrimStartMatches(SubSeq(s, Len(p) + 1, Len(s)), p)
  ELSE s

StartsWith(s, p) == Len(s) >= Len(p) /\ SubSeq(s, 1, Len(p)) = p

Contains(s, p) ==
  \E i \in 1..(Len(s) - Len(p) + 1) : SubSeq(s, i, i + Len(p) - 1) = p

\* the index of the first c in s at or after i, 0 when there is none
RECURSIVE Find(_, _, _)
Find(s, c, i) ==
  IF i > Len(s) THEN 0
  ELSE IF SubSeq(s, i, i) = c THEN i
  ELSE Find(s, c, i + 1)

\* str::split(c): the pieces between the separators, empty ones included
RECURSIVE Split(_, _)
Split(s, c) ==
  LET i == Find(s, c, 1) IN
  IF i = 0 THEN <<s>>
  ELSE <<SubSeq(s, 1, i - 1)>> \o Split(SubSeq(s, i + 1, Len(s)), c)

\* str::splitn(2, c): [key, Option<rest>]
SplitN2(s, c) ==
  LET i == Find(s, c, 1) IN
  IF i = 0 THEN [k |-> s, v |-> None]
  ELSE [k |-> SubSeq(s, 1, i - 1), v |-> Some(SubSeq(s, i + 1, Len(s)))]

(***************************************************************************)
(* u64 and Duration.  TLC's integers have 32 bits, so the 64-bit range of  *)
(* u64 is scaled to 30 bits: U64_MAX stands for u64::MAX, a decimal string *)
(* above it does not parse, and a Duration sum above it overflows.         *)
(***************************************************************************)
U64_MAX == 1073741823

DigitVal(c) ==
  CASE c = "0" -> 0 [] c = "1" -> 1 [] c = "2" -> 2 [] c = "3" -> 3
    [] c = "4" -> 4 [] c = "5" -> 5 [] c = "6" -> 6 [] c = "7" -> 7
    [] c = "8" -> 8 [] c = "9" -> 9 [] OTHER -> -1

\* the digits of s from position i on, accumulated onto acc: Option<u64>
RECURSIVE ParseDigits(_, _, _)
ParseDigits(s, i, acc) ==
  IF i > Len(s) THEN Some(acc)
  ELSE LET d == DigitVal(SubSeq(s, i, i)) IN
       IF d < 0 THEN None
       ELSE IF acc > (U64_MAX - d) \div 10 THEN None
       ELSE ParseDigits(s, i + 1, acc * 10 + d)

\* str::parse::<u64>().ok(): decimal digits after an optional '+'
ParseU64(s) ==
  LET digits == IF StartsWith(s, "+") THEN SubSeq(s, 2, Len(s)) ELSE s IN
  IF Len(digits) = 0 THEN None ELSE ParseDigits(digits, 1, 0)

(***************************************************************************)
(* HeaderMap                                                               *)
(***************************************************************************)
EmptyHeaders == <<>>

contains_key(h, name) == name \in DOMAIN h

\* HeaderMap::get_all: every value of the name, in order
get_all(h, name) == IF name \in DOMAIN h THEN h[name] ELSE <<>>

\* HeaderMap::get: the first value of the name
get(h, name) == IF name \in DOMAIN h THEN Some(h[name][1]) ELSE None

\* GetHeaderStr::get_str: the first value, as text
get_str(h, name) == get(h, name)

\* HeaderMap::insert: the value replaces every value of the name
insert(h, name, v) == (name :> <<v>>) @@ h

\* HeaderMap::remove
remove(h, name) == [n \in (DOMAIN h) \ {name} |-> h[n]]

(***************************************************************************)
(* Cache-Control                                                           *)
(***************************************************************************)
EmptyCC == <<>>

\* lib.rs:56-79, one comma-separated part; acc is [cc, is_valid]
ParsePart(acc, part) ==
  IF Len(Trim(part)) = 0 THEN acc
  ELSE LET kv == SplitN2(part, "=")
           k == Trim(kv.k)
           v == IF IsSome(kv.v) THEN Some(Trim(Unwrap(kv.v))) ELSE None
       IN IF Len(k) = 0 THEN acc
          ELSE IF k \in DOMAIN acc.cc
               THEN [acc EXCEPT !.is_valid = acc.is_valid /\ (acc.cc[k] = v)]
               ELSE [acc EXCEPT !.cc =
                       (k :> (IF IsSome(v)
                              THEN Some(TrimMatches(Unwrap(v), "\""))
                              ELSE None)) @@ acc.cc]

RECURSIVE ParseParts(_, _)
ParseParts(acc, parts) ==
  IF parts = <<>> THEN acc
  ELSE ParseParts(ParsePart(acc, Head(parts)), Tail(parts))

RECURSIVE ParseValues(_, _)
ParseValues(acc, values) ==
  IF values = <<>> THEN acc
  ELSE ParseValues(ParseParts(acc, Split(Head(values), ",")), Tail(values))

\* a parser that keeps the first value of a repeated directive and does
\* not record the conflict
parse_cache_control_first_wins(values) ==
  ParseValues([cc |-> EmptyCC, is_valid |-> TRUE], values).cc

\* parse_cache_control: the directive map of the header's values
parse_cache_control(values) ==
  LET r == ParseValues([cc |-> EmptyCC, is_valid |-> TRUE], values) IN
  IF ~r.is_valid THEN ("must-revalidate" :> None) @@ r.cc ELSE r.cc

IsAsciiAlphanumeric(c) ==
  c \in {"0", "1", "2", "3", "4", "5", "6", "7", "8", "9",
         "a", "b", "c", "d", "e", "f", "g", "h", "i", "j", "k", "l", "m",
         "n", "o", "p", "q", "r", "s", "t", "u", "v", "w", "x", "y", "z",
         "A", "B", "C", "D", "E", "F", "G", "H", "I", "J", "K", "L", "M",
         "N", "O", "P", "Q", "R", "S", "T", "U", "V", "W", "X", "Y", "Z"}

\* a directive formatted without quotes around any value
FormatDirectiveWithoutQuotes(k, v) ==
  IF IsSome(v) THEN k \o "=" \o Unwrap(v) ELSE k

\* lib.rs:93-105, one directive of the formatted header
FormatDirective(k, v) ==
  IF IsSome(v)
  THEN LET needs_quote ==
             Len(Unwrap(v)) = 0
             \/ \E i \in 1..Len(Unwrap(v)) :
                  ~IsAsciiAlphanumeric(SubSeq(Unwrap(v), i, i))
       IN k \o "=" \o (IF needs_quote THEN "\"" ELSE "")
            \o Unwrap(v) \o (IF needs_quote THEN "\"" ELSE "")
  ELSE k

\* format_cache_control; order is the order in which the HashMap yields the
\* directive names, which the code does not determine
RECURSIVE FormatFrom(_, _, _)
FormatFrom(cc, order, out) ==
  IF order = <<>> THEN out
  ELSE FormatFrom(cc, Tail(order),
         (IF Len(out) > 0 THEN out \o ", " ELSE out)
           \o FormatDirective(Head(order), cc[Head(order)]))

format_cache_control(cc, order) == FormatFrom(cc, order, "")

\* the orders in which a HashMap of these keys can be iterated
IterationOrders(keys) ==
  {o \in [1..Cardinality(keys) -> keys] :
     \A i, j \in 1..Cardinality(keys) : i # j => o[i] # o[j]}

(***************************************************************************)
(* Dates.  OffsetDateTime::parse(_, &Rfc2822) is modelled on the dates of  *)
(* the first hour of the epoch, "Thu, 01 Jan 1970 00:MM:SS GMT", with the  *)
(* unix timestamp 60 * MM + SS, and of the last minute before it,          *)
(* "Wed, 31 Dec 1969 23:59:SS GMT", with the negative unix timestamp       *)
(* SS - 60; any other text is an error.                                    *)
(***************************************************************************)
TwoDigits(s) ==
  IF Len(s) = 2 /\ DigitVal(SubSeq(s, 1, 1)) >= 0 /\ DigitVal(SubSeq(s, 2, 2)) >= 0
  THEN Some(10 * DigitVal(SubSeq(s, 1, 1)) + DigitVal(SubSeq(s, 2, 2)))
  ELSE None

ParseRfc2822(s) ==
  IF Len(s) = 29
     /\ SubSeq(s, 1, 20) = "Thu, 01 Jan 1970 00:"
     /\ SubSeq(s, 23, 23) = ":"
     /\ SubSeq(s, 26, 29) = " GMT"
     /\ IsSome(TwoDigits(SubSeq(s, 21, 22)))
     /\ IsSome(TwoDigits(SubSeq(s, 24, 25)))
     /\ Unwrap(TwoDigits(SubSeq(s, 21, 22))) < 60
     /\ Unwrap(TwoDigits(SubSeq(s, 24, 25))) < 60
  THEN Some(60 * Unwrap(TwoDigits(SubSeq(s, 21, 22)))
            + Unwrap(TwoDigits(SubSeq(s, 24, 25))))
  ELSE IF Len(s) = 29
     /\ SubSeq(s, 1, 23) = "Wed, 31 Dec 1969 23:59:"
     /\ SubSeq(s, 26, 29) = " GMT"
     /\ IsSome(TwoDigits(SubSeq(s, 24, 25)))
     /\ Unwrap(TwoDigits(SubSeq(s, 24, 25))) < 60
  THEN Some(Unwrap(TwoDigits(SubSeq(s, 24, 25))) - 60)
  ELSE None

(***************************************************************************)
(* Constants of lib.rs                                                     *)
(***************************************************************************)
STATUS_CODE_CACHEABLE_BY_DEFAULT ==
  {200, 203, 204, 206, 300, 301, 308, 404, 405, 410, 414, 501}

HOP_BY_HOP_HEADERS ==
  {"date", "connection", "keep-alive", "proxy-authenticate",
   "proxy-authorization", "te", "trailer", "transfer-encoding", "upgrade"}

EXCLUDED_FROM_REVALIDATION_UPDATE ==
  {"content-length", "content-encoding", "transfer-encoding", "content-range"}

\* the understood statuses with 206 (Partial Content) among them
UNDERSTOOD_STATUSES_WITH_206 ==
  {200, 203, 204, 206, 300, 301, 302, 303, 307, 308, 404, 405, 410, 414, 501}

UNDERSTOOD_STATUSES ==
  {200, 203, 204, 300, 301, 302, 303, 307, 308, 404, 405, 410, 414, 501}

\* CacheOptions::default; cache_heuristic is the fraction num / den
DefaultOptions ==
  [shared |-> TRUE,
   cache_heuristic |-> [num |-> 1, den |-> 10],
   immutable_min_time_to_live |-> 24 * 3600,
   ignore_cargo_cult |-> FALSE]

(***************************************************************************)
(* CachePolicy                                                             *)
(***************************************************************************)
CargoCultDirectives ==
  {"pre-check", "post-check", "no-cache", "no-store", "must-revalidate"}

\* a rewrite that leaves the Expires header in place
StripCargoCultKeepingExpires(res, res_cc, opts, order) ==
  IF opts.ignore_cargo_cult
     /\ "pre-check" \in DOMAIN res_cc
     /\ "post-check" \in DOMAIN res_cc
  THEN [res |-> remove(insert(res, "cache-control",
                  format_cache_control(
                    [k \in (DOMAIN res_cc) \ CargoCultDirectives |-> res_cc[k]],
                    order)), "pragma"),
        res_cc |-> [k \in (DOMAIN res_cc) \ CargoCultDirectives |-> res_cc[k]]]
  ELSE [res |-> res, res_cc |-> res_cc]

\* lib.rs:226-241: with ignore_cargo_cult, a response that carries both
\* pre-check and post-check loses the cargo-cult directives, its
\* Cache-Control header is rewritten from what is left, and its Expires and
\* Pragma headers are removed
StripCargoCult(res, res_cc, opts, order) ==
  IF opts.ignore_cargo_cult
     /\ "pre-check" \in DOMAIN res_cc
     /\ "post-check" \in DOMAIN res_cc
  THEN LET kept == [k \in (DOMAIN res_cc) \ CargoCultDirectives |-> res_cc[k]] IN
       [res |-> remove(remove(insert(res, "cache-control",
                                     format_cache_control(kept, order)),
                              "expires"), "pragma"),
        res_cc |-> kept]
  ELSE [res |-> res, res_cc |-> res_cc]

\* lib.rs:243-250: without a Cache-Control header, Pragma: no-cache counts
\* as the no-cache directive
PragmaNoCache(res, res_cc) ==
  IF ~contains_key(res, "cache-control")
     /\ IsSome(get_str(res, "pragma"))
     /\ Contains(Unwrap(get_str(res, "pragma")), "no-cache")
  THEN ("no-cache" :> None) @@ res_cc
  ELSE res_cc

\* lib.rs:252-253: the fields of the CachePolicy; s is the response and
\* its directives after lib.rs:226-241
NewCachePolicy(uri, method, status, req, s, response_time, opts) ==
  [req |-> req, res |-> s.res, uri |-> uri, status |-> status,
   method |-> method, opts |-> opts,
   res_cc |-> PragmaNoCache(s.res, s.res_cc),
   req_cc |-> parse_cache_control(get_all(req, "cache-control")),
   response_time |-> response_time]

\* CachePolicy::from_details; order is the HashMap iteration order that
\* format_cache_control meets when the Cache-Control header is rewritten
from_details(uri, method, status, req, res, response_time, opts, order) ==
  NewCachePolicy(uri, method, status, req,
    StripCargoCult(res, parse_cache_control(get_all(res, "cache-control")),
                   opts, order),
    response_time, opts)

\* an explicit expiration that counts the public directive too
has_explicit_expiration_or_public(P) ==
  (P.opts.shared /\ "s-maxage" \in DOMAIN P.res_cc)
  \/ "max-age" \in DOMAIN P.res_cc
  \/ contains_key(P.res, "expires")
  \/ "public" \in DOMAIN P.res_cc

\* CachePolicy::has_explicit_expiration
has_explicit_expiration(P) ==
  (P.opts.shared /\ "s-maxage" \in DOMAIN P.res_cc)
  \/ "max-age" \in DOMAIN P.res_cc
  \/ contains_key(P.res, "expires")

\* a permission to store authenticated responses that max-age grants too
allows_storing_authenticated_or_max_age(P) ==
  "must-revalidate" \in DOMAIN P.res_cc
  \/ "public" \in DOMAIN P.res_cc
  \/ "s-maxage" \in DOMAIN P.res_cc
  \/ "max-age" \in DOMAIN P.res_cc

\* CachePolicy::allows_storing_authenticated
allows_storing_authenticated(P) ==
  "must-revalidate" \in DOMAIN P.res_cc
  \/ "public" \in DOMAIN P.res_cc
  \/ "s-maxage" \in DOMAIN P.res_cc

\* CachePolicy::is_storable
is_storable(P) ==
  /\ "no-store" \notin DOMAIN P.req_cc
  /\ \/ P.method = "GET"
     \/ P.method = "HEAD"
     \/ (P.method = "POST" /\ has_explicit_expiration(P))
  /\ P.status \in UNDERSTOOD_STATUSES
  /\ "no-store" \notin DOMAIN P.res_cc
  /\ (~P.opts.shared \/ "private" \notin DOMAIN P.res_cc)
  /\ \/ ~P.opts.shared
     \/ ~contains_key(P.req, "authorization")
     \/ allows_storing_authenticated(P)
  /\ \/ contains_key(P.res, "expires")
     \/ "max-age" \in DOMAIN P.res_cc
     \/ (P.opts.shared /\ "s-maxage" \in DOMAIN P.res_cc)
     \/ "public" \in DOMAIN P.res_cc
     \/ P.status \in STATUS_CODE_CACHEABLE_BY_DEFAULT

\* a server date that is the time the response was received, whatever its
\* Date header
raw_server_date_ignoring_date(P) == P.response_time

\* CachePolicy::raw_server_date.  A negative timestamp cast `as u64` is
\* above i64::MAX seconds, so that checked_add gives None
raw_server_date(P) ==
  LET d == get_str(P.res, "date")
      t == IF IsSome(d) THEN ParseRfc2822(Unwrap(d)) ELSE None
  IN IF IsSome(t) /\ Unwrap(t) >= 0 THEN Unwrap(t) ELSE P.response_time

\* CachePolicy::age_header_value
age_header_value(P) ==
  LET a == get_str(P.res, "age")
      v == IF IsSome(a) THEN ParseU64(Unwrap(a)) ELSE None
  IN IF IsSome(v) THEN Unwrap(v) ELSE 0

\* now.duration_since(self.response_time): Ok(d) or Err
duration_since(later, earlier) ==
  IF later >= earlier THEN Some(later - earlier) ELSE None

\* lib.rs:502: Duration's += panics ("overflow when adding durations")
\* when the sum is not a Duration
age_panics(P, now) ==
  LET resident_time == duration_since(now, P.response_time) IN
  IsSome(resident_time) /\ age_header_value(P) + Unwrap(resident_time) > U64_MAX

\* CachePolicy::age, where it returns
age(P, now) ==
  LET resident_time == duration_since(now, P.response_time) IN
  IF IsSome(resident_time)
  THEN age_header_value(P) + Unwrap(resident_time)
  ELSE age_header_value(P)

Max(a, b) == IF a >= b THEN a ELSE b

\* a directive's value: Option<&str>, None for an absent or bare directive
DirectiveValue(cc, k) == IF k \in DOMAIN cc THEN cc[k] ELSE None

\* str::parse().unwrap_or(0)
ParseOrZero(s) == IF IsSome(ParseU64(s)) THEN Unwrap(ParseU64(s)) ELSE 0

\* lib.rs:555-586: the lifetime from Expires, else from Last-Modified
MaxAgeFromDates(P) ==
  LET default_min_ttl == IF "immutable" \in DOMAIN P.res_cc
                         THEN P.opts.immutable_min_time_to_live
                         ELSE 0
      server_date == raw_server_date(P)
      expires == get_str(P.res, "expires")
      last_modified == get_str(P.res, "last-modified")
  IN IF IsSome(expires)
     THEN LET e == ParseRfc2822(Unwrap(expires)) IN
          IF ~IsSome(e) THEN 0
          ELSE Max(default_min_ttl,
                   IF Max(Unwrap(e), 0) >= server_date
                   THEN Max(Unwrap(e), 0) - server_date ELSE 0)
     ELSE LET lm == IF IsSome(last_modified)
                    THEN ParseRfc2822(Unwrap(last_modified))
                    ELSE None
          IN IF IsSome(lm) /\ server_date >= Max(Unwrap(lm), 0)
             THEN Max(default_min_ttl,
                      ((server_date - Max(Unwrap(lm), 0))
                         * P.opts.cache_heuristic.num)
                        \div P.opts.cache_heuristic.den)
             ELSE default_min_ttl

\* CachePolicy::max_age
max_age(P) ==
  LET vary == get_str(P.res, "vary")
      s_max == DirectiveValue(P.res_cc, "s-maxage")
      m_age == DirectiveValue(P.res_cc, "max-age")
  IN IF ~is_storable(P) \/ "no-cache" \in DOMAIN P.res_cc THEN 0
     ELSE IF P.opts.shared
             /\ contains_key(P.res, "set-cookie")
             /\ "public" \notin DOMAIN P.res_cc
             /\ "immutable" \notin DOMAIN P.res_cc THEN 0
     ELSE IF IsSome(vary) /\ Trim(Unwrap(vary)) = "*" THEN 0
     ELSE IF P.opts.shared /\ "proxy-revalidate" \in DOMAIN P.res_cc THEN 0
     ELSE IF P.opts.shared /\ IsSome(s_max) THEN ParseOrZero(Unwrap(s_max))
     ELSE IF IsSome(m_age) THEN ParseOrZero(Unwrap(m_age))
     ELSE MaxAgeFromDates(P)

\* CachePolicy::time_to_live, where age returns
time_to_live(P, now) ==
  IF max_age(P) >= age(P, now) THEN max_age(P) - age(P, now) ELSE 0

\* CachePolicy::is_stale, where age returns
is_stale(P, now) == max_age(P) <= age(P, now)

(***************************************************************************)
(* Request matching                                                        *)
(***************************************************************************)
UpperCase == "ABCDEFGHIJKLMNOPQRSTUVWXYZ"
LowerCase == "abcdefghijklmnopqrstuvwxyz"

\* str::to_ascii_lowercase
RECURSIVE ToAsciiLowercase(_)
ToAsciiLowercase(s) ==
  IF Len(s) = 0 THEN s
  ELSE LET i == Find(UpperCase, SubSeq(s, 1, 1), 1) IN
       (IF i > 0 THEN SubSeq(LowerCase, i, i) ELSE SubSeq(s, 1, 1))
         \o ToAsciiLowercase(SubSeq(s, 2, Len(s)))

RECURSIVE TrimAll(_)
TrimAll(parts) ==
  IF parts = <<>> THEN <<>> ELSE <<Trim(Head(parts))>> \o TrimAll(Tail(parts))

\* get_all_comma: the trimmed comma-separated entries of every value
RECURSIVE get_all_comma(_)
get_all_comma(values) ==
  IF values = <<>> THEN <<>>
  ELSE TrimAll(Split(Head(values), ",")) \o get_all_comma(Tail(values))

\* a vary_matches whose loop returns after the first entry of Vary
VaryNamesMatchFirstOnly(P, req, names) ==
  IF names = <<>> THEN TRUE
  ELSE IF Head(names) = "*" THEN FALSE
  ELSE get(req.headers, ToAsciiLowercase(Trim(Head(names))))
         = get(P.req, ToAsciiLowercase(Trim(Head(names))))

\* CachePolicy::vary_matches, over the entries of the stored Vary
RECURSIVE VaryNamesMatch(_, _, _)
VaryNamesMatch(P, req, names) ==
  IF names = <<>> THEN TRUE
  ELSE IF Head(names) = "*" THEN FALSE
  ELSE LET name == ToAsciiLowercase(Trim(Head(names))) IN
       IF get(req.headers, name) # get(P.req, name) THEN FALSE
       ELSE VaryNamesMatch(P, req, Tail(names))

vary_matches(P, req) ==
  VaryNamesMatch(P, req, get_all_comma(get_all(P.res, "vary")))

\* CachePolicy::request_matches: (matches including method, may revalidate)
request_matches(P, req) ==
  LET matches == /\ req.uri = P.uri
                 /\ get(P.req, "host") = get(req.headers, "host")
                 /\ vary_matches(P, req)
      exact_match == matches /\ P.method = req.method
  IN [matches |-> exact_match,
      may_revalidate |-> exact_match \/ req.method = "HEAD"]

\* Option<&Option<Box<str>>>.and_then(as_ref).and_then(parse().ok())
DirectiveU64(cc, k) ==
  IF IsSome(DirectiveValue(cc, k)) THEN ParseU64(Unwrap(DirectiveValue(cc, k)))
  ELSE None

\* a max-stale check that does not look at the response's must-revalidate
allows_stale_despite_must_revalidate(P, req_cc, now) ==
  /\ "max-stale" \in DOMAIN req_cc
  /\ (IsSome(DirectiveU64(req_cc, "max-stale"))
        => Unwrap(DirectiveU64(req_cc, "max-stale")) > age(P, now) - max_age(P))

\* lib.rs:363-378: whether a stale response may be served to the request
allows_stale(P, req_cc, now) ==
  LET has_max_stale == "max-stale" \in DOMAIN req_cc
      max_stale == DirectiveU64(req_cc, "max-stale")
  IN /\ "must-revalidate" \notin DOMAIN P.res_cc
     /\ has_max_stale
     /\ (IsSome(max_stale) => Unwrap(max_stale) > age(P, now) - max_age(P))

\* lib.rs:333-339: the request asks for revalidation
RequestNoCache(req_headers) ==
  LET req_cc == parse_cache_control(get_all(req_headers, "cache-control"))
      pragma == get_str(req_headers, "pragma")
  IN "no-cache" \in DOMAIN req_cc
     \/ (IsSome(pragma) /\ Contains(Unwrap(pragma), "no-cache"))

\* a satisfies_without_revalidation that does not look at min-fresh
satisfies_ignoring_min_fresh(P, req_headers, now) ==
  LET req_cc == parse_cache_control(get_all(req_headers, "cache-control"))
      req_max_age == DirectiveU64(req_cc, "max-age")
  IN IF RequestNoCache(req_headers) THEN FALSE
     ELSE IF IsSome(req_max_age) /\ age(P, now) > Unwrap(req_max_age) THEN FALSE
     ELSE IF is_stale(P, now) THEN allows_stale(P, req_cc, now)
     ELSE TRUE

\* CachePolicy::satisfies_without_revalidation, where age returns
satisfies_without_revalidation(P, req_headers, now) ==
  LET req_cc == parse_cache_control(get_all(req_headers, "cache-control"))
      req_max_age == DirectiveU64(req_cc, "max-age")
      min_fresh == DirectiveU64(req_cc, "min-fresh")
  IN IF RequestNoCache(req_headers) THEN FALSE
     ELSE IF IsSome(req_max_age) /\ age(P, now) > Unwrap(req_max_age) THEN FALSE
     ELSE IF IsSome(min_fresh) /\ time_to_live(P, now) < Unwrap(min_fresh) THEN FALSE
     ELSE IF is_stale(P, now) THEN allows_stale(P, req_cc, now)
     ELSE TRUE

\* satisfies_without_revalidation calls age unless the request's no-cache
\* makes it return first
satisfies_panics(P, req_headers, now) ==
  ~RequestNoCache(req_headers) /\ age_panics(P, now)

(***************************************************************************)
(* Returned headers                                                        *)
(***************************************************************************)
\* join: the parts separated by ", "; a separator is written only once
\* the output is not empty
RECURSIVE JoinOnto(_, _)
JoinOnto(acc, parts) ==
  IF parts = <<>> THEN acc
  ELSE JoinOnto(IF acc = "" THEN Head(parts) ELSE acc \o ", " \o Head(parts),
                Tail(parts))

join(parts) == JoinOnto("", parts)

\* a filter that lets a part pass whose fourth character is a digit, as
\* a warning code of four digits
RECURSIVE NotStartingWithThreeDigits(_, _)
NotStartingWithThreeDigits(parts, prefix) ==
  IF parts = <<>> THEN <<>>
  ELSE (IF StartsWith(TrimStart(Head(parts)), prefix)
           /\ ~(Len(Head(parts)) >= 4
                 /\ DigitVal(SubSeq(Head(parts), 4, 4)) >= 0)
        THEN <<>>
        ELSE <<Head(parts)>>) \o NotStartingWithThreeDigits(Tail(parts), prefix)

\* Iterator::filter(|part| !part.trim_start().starts_with(prefix))
RECURSIVE NotStartingWith(_, _)
NotStartingWith(parts, prefix) ==
  IF parts = <<>> THEN <<>>
  ELSE (IF StartsWith(TrimStart(Head(parts)), prefix) THEN <<>>
        ELSE <<Head(parts)>>) \o NotStartingWith(Tail(parts), prefix)

\* lib.rs:420-425: insert of every (name, value) pair whose name is not
\* hop-by-hop; each insert replaces the value inserted before it
InsertEach(in_headers) ==
  [h \in (DOMAIN in_headers) \ HOP_BY_HOP_HEADERS |->
     <<in_headers[h][Len(in_headers[h])]>>]

\* lib.rs:428-430: remove of every name, looked up without regard to case
RECURSIVE RemoveEach(_, _)
RemoveEach(headers, names) ==
  IF names = <<>> THEN headers
  ELSE RemoveEach(remove(headers, ToAsciiLowercase(Head(names))), Tail(names))

\* lib.rs:437-441
SetWarning(headers, new_warnings) ==
  IF new_warnings = "" THEN remove(headers, "warning")
  ELSE insert(headers, "warning", new_warnings)

\* CachePolicy::copy_without_hop_by_hop_headers
copy_without_hop_by_hop_headers(in_headers) ==
  SetWarning(
    RemoveEach(InsertEach(in_headers),
               get_all_comma(get_all(in_headers, "connection"))),
    join(NotStartingWith(get_all_comma(get_all(in_headers, "warning")), "1")))

\* u64::to_string
RECURSIVE FormatU64(_)
FormatU64(n) ==
  IF n < 10 THEN SubSeq("0123456789", n + 1, n + 1)
  ELSE FormatU64(n \div 10) \o SubSeq("0123456789", (n % 10) + 1, (n % 10) + 1)

\* OffsetDateTime::from(now).format(&Rfc2822), for the first hour of 1970
FormatRfc2822(t) ==
  "Thu, 01 Jan 1970 00:"
    \o FormatU64((t \div 60) \div 10) \o FormatU64((t \div 60) % 10) \o ":"
    \o FormatU64((t % 60) \div 10) \o FormatU64((t % 60) % 10) \o " +0000"

\* HeaderMap::append: the value is added after the values of the name
append(h, name, v) == (name :> (get_all(h, name) \o <<v>>)) @@ h

\* a warning that is added whether or not the expiration is explicit
Warning113IgnoringExpiration(P, now, headers) ==
  IF age(P, now) > 3600 * 24 /\ max_age(P) > 3600 * 24
  THEN append(headers, "warning", "113 - \"rfc7234 5.5.4\"")
  ELSE headers

\* lib.rs:459-464: the warning of a heuristic lifetime over 24 hours
Warning113(P, now, headers) ==
  IF /\ age(P, now) > 3600 * 24
     /\ ~has_explicit_expiration(P)
     /\ max_age(P) > 3600 * 24
  THEN append(headers, "warning", "113 - \"rfc7234 5.5.4\"")
  ELSE headers

\* CachePolicy::cached_response, where age returns
cached_response(P, now) ==
  [status |-> P.status,
   headers |->
     insert(insert(Warning113(P, now, copy_without_hop_by_hop_headers(P.res)),
                   "age", FormatU64(age(P, now))),
            "date", FormatRfc2822(now))]

\* CachePolicy::request_from_headers
request_from_headers(P, headers) ==
  [method |-> P.method, uri |-> P.uri, headers |-> headers]

\* lib.rs:635-638: the stored ETag after the request's If-None-Match
AddStoredETag(P, headers) ==
  IF IsSome(get_str(P.res, "etag"))
  THEN insert(headers, "if-none-match",
              join(get_all_comma(get_all(headers, "if-none-match"))
                     \o <<Unwrap(get_str(P.res, "etag"))>>))
  ELSE headers

\* lib.rs:641-644
forbids_weak_validators(P, headers) ==
  \/ P.method # "GET"
  \/ contains_key(headers, "accept-ranges")
  \/ contains_key(headers, "if-match")
  \/ contains_key(headers, "if-unmodified-since")

\* lib.rs:651-659: If-None-Match without its weak entries
SetIfNoneMatch(headers, etags) ==
  IF etags = "" THEN remove(headers, "if-none-match")
  ELSE insert(headers, "if-none-match", etags)

\* lib.rs:648-667
SetValidators(P, headers) ==
  IF forbids_weak_validators(P, headers)
  THEN SetIfNoneMatch(remove(headers, "if-modified-since"),
         join(NotStartingWith(get_all_comma(get_all(headers, "if-none-match")),
                              "W/")))
  ELSE IF ~contains_key(headers, "if-modified-since")
          /\ IsSome(get_str(P.res, "last-modified"))
  THEN insert(headers, "if-modified-since",
              Unwrap(get_str(P.res, "last-modified")))
  ELSE headers

\* CachePolicy::revalidation_request
revalidation_request(P, incoming_req) ==
  IF ~is_storable(P)
  THEN request_from_headers(P,
         remove(remove(remove(
           copy_without_hop_by_hop_headers(incoming_req.headers),
           "if-range"), "if-none-match"), "if-modified-since"))
  ELSE request_from_headers(P,
         SetValidators(P,
           AddStoredETag(P,
             remove(copy_without_hop_by_hop_headers(incoming_req.headers),
                    "if-range"))))

\* CachePolicy::before_request: Fresh with the cached response, Stale with
\* the request to send and the matches flag, or the panic of age
before_request(P, req, now) ==
  LET m == request_matches(P, req) IN
  IF m.matches /\ satisfies_panics(P, req.headers, now)
  THEN [kind |-> "panic"]
  ELSE IF m.matches /\ satisfies_without_revalidation(P, req.headers, now)
  THEN [kind |-> "Fresh", response |-> cached_response(P, now)]
  ELSE [kind |-> "Stale", matches |-> m.matches,
        revalidation |-> m.may_revalidate,
        request |-> IF m.may_revalidate THEN revalidation_request(P, req)
                    ELSE request_from_headers(P, req.headers)]

(***************************************************************************)
(* The state: the response headers the policy was constructed from, the    *)
(* stored policy, the new request presented to it, the clock, and the      *)
(* outcome of the last operation called on the policy.                     *)
(***************************************************************************)
VARIABLES response, policy, request, now, out

vars == <<response, policy, request, now, out>>

\* the clock runs from 0 to MaxNow
MaxNow == 3

\* a header map from optional single values
Hdr(name, v) == IF IsSome(v) THEN name :> <<Unwrap(v)>> ELSE EmptyHeaders

Optional(S) == {None} \cup {Some(v) : v \in S}

\* the decimal text of U64_MAX
U64MaxText == "1073741823"

Date3 == "Thu, 01 Jan 1970 00:00:03 GMT"
Date30 == "Thu, 01 Jan 1970 00:00:30 GMT"

Private == [DefaultOptions EXCEPT !.shared = FALSE]
IgnoreCargoCult == [DefaultOptions EXCEPT !.ignore_cargo_cult = TRUE]

\* the iteration orders format_cache_control can meet for these directives
FormatOrders(res_cc, opts) ==
  IF opts.ignore_cargo_cult
     /\ "pre-check" \in DOMAIN res_cc
     /\ "post-check" \in DOMAIN res_cc
  THEN IterationOrders((DOMAIN res_cc) \ CargoCultDirectives)
  ELSE {<<>>}

\* the policies CachePolicy::new_options can build from the input i
NewPolicy(i) ==
  {from_details("/", i.method, i.status, i.req, i.res, i.response_time,
                i.opts, order) :
     order \in FormatOrders(parse_cache_control(get_all(i.res, "cache-control")),
                            i.opts)}

(***************************************************************************)
(* Inputs of Spec: stored GET policies with every source of the freshness  *)
(* lifetime, and the new requests presented to them.                       *)
(***************************************************************************)
ConflictingMaxAge == "max-age=1, max-age=2"
CargoCultConflict == "pre-check=0, post-check=0, max-age=1, max-age=2"

FreshResponseCC ==
  {"max-age=1", "max-age=2", "max-age=1, must-revalidate",
   ConflictingMaxAge, "max-age=1, max-age=\"1\"",
   "no-store, max-age=2", "no-cache, max-age=2", "private, max-age=2",
   "s-maxage=1, max-age=2", "max-age=x"}

CargoCultCC ==
  {CargoCultConflict, "pre-check=0, post-check=0, no-store, max-age=1"}

AgeHeaders == {"1", "golden", U64MaxText}

\* the request the policy is stored for
StoredHeaders == Hdr("host", Some("a")) @@ Hdr("weather", Some("nice"))

StoredRequests ==
  {StoredHeaders @@ Hdr("cache-control", cc) : cc \in Optional({"no-store"})}

\* responses whose lifetime comes from the directives
DirectiveResponses(ccs) ==
  {Hdr("cache-control", cc) @@ Hdr("age", a) :
     cc \in ccs, a \in Optional(AgeHeaders)}

\* responses whose lifetime comes from the other headers
DateResponses ==
  {Hdr("cache-control", cc) @@ h :
     cc \in Optional({"public", "immutable", "proxy-revalidate, max-age=2"}),
     h \in {Hdr("expires", Some(Date3)),
            Hdr("expires", Some("0")),
            Hdr("expires", Some(Date3)) @@ Hdr("date", Some(Date30)),
            Hdr("last-modified", Some(Date3)) @@ Hdr("date", Some(Date30)),
            Hdr("last-modified", Some(Date30)) @@ Hdr("date", Some(Date3)),
            Hdr("last-modified", Some("yesterday")),
            Hdr("set-cookie", Some("a=b")) @@ Hdr("expires", Some(Date3)),
            Hdr("vary", Some(" * ")) @@ Hdr("expires", Some(Date3)),
            Hdr("pragma", Some("no-cache")) @@ Hdr("expires", Some(Date3))}}

\* the arguments of CachePolicy::new_options, with the request and the
\* response given by their parts
Input(method, req, status, res, response_time, opts) ==
  [method |-> method, req |-> req, status |-> status, res |-> res,
   response_time |-> response_time, opts |-> opts]

\* the inputs on which the lifetime arithmetic is explored
LifetimeInputs ==
  {Input("GET", req, 200, res, rt, opts) :
     req \in StoredRequests,
     res \in DirectiveResponses(Optional(FreshResponseCC \cup CargoCultCC)),
     rt \in {0, 1}, opts \in {DefaultOptions, Private}}
  \cup
  {Input("GET", req, 200, res, rt, IgnoreCargoCult) :
     req \in StoredRequests,
     res \in DirectiveResponses(Optional(CargoCultCC)), rt \in {0, 1}}
  \cup
  {Input("GET", StoredHeaders, 200, res, 1, opts) :
     res \in DateResponses, opts \in {DefaultOptions, Private}}

\* the inputs on which the reuse decision is explored
ReuseInputs ==
  {Input("GET", StoredHeaders, 200, res, rt, DefaultOptions) :
     res \in DirectiveResponses(
               {Some("max-age=1"), Some("max-age=1, must-revalidate"),
                Some(ConflictingMaxAge), Some(CargoCultConflict),
                Some("no-store, max-age=2")}),
     rt \in {0, 1}}
  \cup
  {Input("GET", StoredHeaders, 200, res, rt, IgnoreCargoCult) :
     res \in DirectiveResponses({Some(CargoCultConflict)}), rt \in {0, 1}}
  \cup
  {Input("GET", StoredHeaders, 200,
         Hdr("cache-control", Some("max-age=1")) @@ Hdr("vary", Some(v)),
         0, DefaultOptions) :
     v \in {"Weather", "*", "weather, *"}}

(***************************************************************************)
(* Inputs of SpecStore: every status the cache understands and some it     *)
(* does not, the cacheable and the other methods, and the request and      *)
(* response headers that storability reads.                                *)
(***************************************************************************)
StoreStatuses == UNDERSTOOD_STATUSES \cup {206, 304, 503}

StoreResponseCC ==
  {"public", "private", "no-store", "must-revalidate", "s-maxage=1",
   "max-age=1", ConflictingMaxAge, "private, s-maxage=1"}

\* Cache-Control values with both, one or none of pre-check and
\* post-check, next to the directives they overrule and to others
PreCheckCC ==
  {"pre-check=0, post-check=0, no-store, no-cache, max-age=2",
   "post-check=0, pre-check=0, must-revalidate",
   "pre-check=0, post-check=0",
   "max-age=100, custom, foo=\"a b\", pre-check=0, post-check=0",
   "pre-check=0, no-store, max-age=2",
   "no-cache, max-age=2"}

StoreInputs ==
  {Input(m, StoredHeaders, st, Hdr("cache-control", cc), 0, opts) :
     m \in {"GET", "HEAD", "POST", "PUT"}, st \in StoreStatuses,
     cc \in Optional({"public", "max-age=2"}),
     opts \in {DefaultOptions, Private}}
  \cup
  {Input(m, StoredHeaders @@ Hdr("authorization", a) @@ Hdr("cache-control", rc),
         st, Hdr("cache-control", cc) @@ Hdr("expires", e), 0, opts) :
     m \in {"GET", "POST", "DELETE"}, a \in Optional({"secret"}),
     rc \in Optional({"no-store"}), st \in {200, 302, 503},
     cc \in Optional(StoreResponseCC), e \in Optional({Date3}),
     opts \in {DefaultOptions, Private}}
  \cup
  {Input("GET", StoredHeaders @@ Hdr("authorization", a), 200,
         Hdr("cache-control", Some(cc)), 0, IgnoreCargoCult) :
     a \in Optional({"secret"}), cc \in CargoCultCC}
  \cup
  {Input("GET", StoredHeaders, 200,
         Hdr("cache-control", Some(cc)) @@ Hdr("expires", e)
           @@ Hdr("pragma", p) @@ Hdr("x-kept", Some("1")),
         0, opts) :
     cc \in PreCheckCC, e \in Optional({Date3}), p \in Optional({"no-cache"}),
     opts \in {DefaultOptions, IgnoreCargoCult}}

RequestCC ==
  {"no-cache", "max-age=0", "max-age=1", "max-age=x", "min-fresh=1",
   "max-stale", "max-stale=1", "max-stale=2", "max-stale=x",
   "max-stale, max-age=1"}

Get(headers) == [method |-> "GET", uri |-> "/", headers |-> headers]

\* the requests that differ from the stored one in Cache-Control and Pragma
DirectiveRequests ==
  {Get(StoredHeaders @@ Hdr("cache-control", cc)) : cc \in Optional(RequestCC)}
  \cup
  {Get(StoredHeaders @@ Hdr("pragma", Some(p)) @@ Hdr("cache-control", cc)) :
     p \in {"no-cache", "x"}, cc \in Optional({"max-stale"})}

\* the requests that differ in method, URI, Host or the varying header
OtherRequests ==
  {[method |-> m, uri |-> u,
    headers |-> Hdr("host", h) @@ Hdr("weather", Some("nice"))] :
     m \in {"GET", "HEAD"}, u \in {"/", "/other"}, h \in Optional({"a", "b"})}
  \cup
  {Get(Hdr("host", Some("a")) @@ Hdr("weather", w)
         @@ Hdr("cache-control", Some("max-stale"))) :
     w \in Optional({"bad", "Nice"})}

Idle == [op |-> "new"]

\* the requests presented to the policies of LifetimeInputs
LifetimeRequests ==
  {Get(StoredHeaders),
   Get(StoredHeaders @@ Hdr("cache-control", Some("max-stale")))}

\* each input with the requests presented to its policy
Cases ==
  {[input |-> i, requests |-> LifetimeRequests] : i \in LifetimeInputs}
  \cup
  {[input |-> i, requests |-> DirectiveRequests \cup OtherRequests] :
     i \in ReuseInputs}

Init ==
  /\ \E c \in Cases :
       /\ response = c.input.res
       /\ policy \in NewPolicy(c.input)
       /\ request \in c.requests
  /\ now = 0
  /\ out = Idle

(***************************************************************************)
(* after_response                                                          *)
(***************************************************************************)
\* the responses of the origin server to the request sent after Stale:
\* 304 without validators, 304 with a strong ETag, 304 with Last-Modified,
\* and a new 200 with hop-by-hop headers and repeated headers
ServerResponses ==
  {[status |-> 304, headers |-> EmptyHeaders],
   [status |-> 304,
    headers |-> Hdr("etag", Some("\"a\"")) @@ Hdr("cache-control", Some("max-age=2"))
                  @@ Hdr("content-length", Some("9")) @@ Hdr("x-new", Some("1"))],
   [status |-> 304,
    headers |-> Hdr("last-modified", Some("Thu, 01 Jan 1970 00:00:03 GMT"))
                  @@ Hdr("age", Some("1"))],
   [status |-> 200,
    headers |-> Hdr("cache-control", Some("max-age=3"))
                  @@ Hdr("connection", Some("x-gone, Keep-Alive"))
                  @@ Hdr("x-gone", Some("1")) @@ Hdr("keep-alive", Some("1"))
                  @@ ("set-cookie" :> <<"a=1", "b=2">>)
                  @@ Hdr("warning", Some("199 - old, 299 - kept"))
                  @@ Hdr("date", Some("Thu, 01 Jan 1970 00:00:03 GMT"))],
   [status |-> 200,
    headers |-> Hdr("cache-control",
                    Some("pre-check=0, post-check=0, public, max-age=3"))]}

\* for a stored response with a validator, the 304 responses that repeat,
\* alter or leave out its ETag and its Last-Modified, each with headers
\* that the stored response has, has under the never-update list, or lacks
ValidatorResponses(P) ==
  IF "etag" \in DOMAIN P.res \/ "last-modified" \in DOMAIN P.res
  THEN {[status |-> 304,
         headers |-> Hdr("etag", e) @@ Hdr("last-modified", lm)
                       @@ Hdr("cache-control", Some("max-age=3"))
                       @@ Hdr("content-length", Some("9"))
                       @@ Hdr("x-kept", Some("2")) @@ Hdr("x-new", Some("1"))] :
          e \in Optional({"\"s\"", "\"w\"", "W/\"w\"", "W/\"s\""}),
          lm \in Optional({"Thu, 01 Jan 1970 00:00:03 GMT",
                           "Thu, 01 Jan 1970 00:00:00 GMT"})}
  ELSE {}

\* the policies CachePolicy::from_details can build for the URI
NewPolicyAt(uri, i) ==
  {from_details(uri, i.method, i.status, i.req, i.res, i.response_time,
                i.opts, order) :
     order \in FormatOrders(parse_cache_control(get_all(i.res, "cache-control")),
                            i.opts)}

\* Option<&str>::map(str::trim)
MapTrim(o) == IF IsSome(o) THEN Some(Trim(Unwrap(o))) ELSE None

\* lib.rs:704-732: whether the validators of the response select the
\* stored response
ValidatorsMatch(status, old_etag, old_last_modified, new_etag, new_last_modified) ==
  IF status # 304 THEN FALSE
  ELSE IF IsSome(new_etag) /\ ~StartsWith(Unwrap(new_etag), "W/")
  THEN IsSome(old_etag)
       /\ TrimStartMatches(Unwrap(old_etag), "W/") = Unwrap(new_etag)
  ELSE IF IsSome(old_etag) /\ IsSome(new_etag)
  THEN TrimStartMatches(Unwrap(old_etag), "W/")
         = TrimStartMatches(Unwrap(new_etag), "W/")
  ELSE IF IsSome(old_last_modified)
  THEN old_last_modified = new_last_modified
  ELSE /\ ~IsSome(old_etag) /\ ~IsSome(new_etag)
       /\ ~IsSome(old_last_modified) /\ ~IsSome(new_last_modified)

\* lib.rs:697-700: old_last_modified is read from the new response's
\* headers, as new_last_modified is
Matches(P, res) ==
  ValidatorsMatch(res.status,
                  MapTrim(get_str(P.res, "etag")),
                  MapTrim(get_str(res.headers, "last-modified")),
                  MapTrim(get_str(res.headers, "etag")),
                  MapTrim(get_str(res.headers, "last-modified")))

\* lib.rs:734-751: the stored headers, each with the value of the new
\* response where it has the header and may update it
UpdatedHeaders(P, response_headers) ==
  [h \in DOMAIN P.res |->
     IF h \in DOMAIN response_headers
        /\ h \notin EXCLUDED_FROM_REVALIDATION_UPDATE
     THEN <<response_headers[h][1]>>
     ELSE <<P.res[h][Len(P.res[h])]>>]

\* lib.rs:766-770
AfterResponseResult(kind, new_policy) ==
  [kind |-> kind, policy |-> new_policy,
   response |-> cached_response(new_policy, new_policy.response_time)]

\* after_response building the new policy with the default options
AfterResponseInputDefaultOptions(P, req, res, response_time, matches) ==
  Input(req.method, req.headers,
        IF matches THEN P.status ELSE res.status,
        IF matches THEN UpdatedHeaders(P, res.headers) ELSE res.headers,
        response_time, DefaultOptions)

\* the input of from_details in after_response
AfterResponseInput(P, req, res, response_time, matches) ==
  Input(req.method, req.headers,
        IF matches THEN P.status ELSE res.status,
        IF matches THEN UpdatedHeaders(P, res.headers) ELSE res.headers,
        response_time, P.opts)

\* CachePolicy::after_response: the results it can return
after_response(P, req, res, response_time) ==
  {AfterResponseResult(IF Matches(P, res) THEN "NotModified" ELSE "Modified",
                 new_policy) :
     new_policy \in NewPolicyAt(req.uri,
                     AfterResponseInput(P, req, res, response_time,
                                        Matches(P, res)))}

(***************************************************************************)
(* Operations                                                              *)
(***************************************************************************)
\* the caller's clock advances
Tick ==
  /\ now < MaxNow
  /\ now' = now + 1
  /\ UNCHANGED <<response, policy, request, out>>

Returned(op, v) == [op |-> op, at |-> now, panic |-> FALSE, val |-> v]
Panicked(op) == [op |-> op, at |-> now, panic |-> TRUE]

\* the outcome of after_response, with the response it was given
Received(res, v) ==
  [op |-> "after_response", at |-> now, panic |-> FALSE, val |-> v,
   res |-> res]

IsStorable ==
  /\ out' = Returned("is_storable", is_storable(policy))
  /\ UNCHANGED <<response, policy, request, now>>

Age ==
  /\ out' = IF age_panics(policy, now) THEN Panicked("age")
            ELSE Returned("age", age(policy, now))
  /\ UNCHANGED <<response, policy, request, now>>

TimeToLive ==
  /\ out' = IF age_panics(policy, now) THEN Panicked("time_to_live")
            ELSE Returned("time_to_live", time_to_live(policy, now))
  /\ UNCHANGED <<response, policy, request, now>>

IsStale ==
  /\ out' = IF age_panics(policy, now) THEN Panicked("is_stale")
            ELSE Returned("is_stale", is_stale(policy, now))
  /\ UNCHANGED <<response, policy, request, now>>

BeforeRequest ==
  /\ out' = LET r == before_request(policy, request, now) IN
            IF r.kind = "panic" THEN Panicked("before_request")
            ELSE Returned("before_request", r)
  /\ UNCHANGED <<response, policy, request, now>>

\* the caller has sent the request of Stale to the origin server and
\* gives the server's response to the policy at the time it arrives
AfterResponse ==
  /\ out.op = "before_request" /\ ~out.panic /\ out.val.kind = "Stale"
  /\ \E res \in ServerResponses \cup ValidatorResponses(policy) :
       out' \in {Received(res, r) :
                   r \in after_response(policy, request, res, now)}
  /\ UNCHANGED <<response, policy, request, now>>

Next ==
  \/ Tick
  \/ IsStorable
  \/ Age
  \/ TimeToLive
  \/ IsStale
  \/ BeforeRequest
  \/ AfterResponse

Spec == Init /\ [][Next]_vars

\* the same operations on the policies of StoreInputs
InitStore ==
  /\ \E i \in StoreInputs :
       /\ response = i.res
       /\ policy \in NewPolicy(i)
  /\ request = Get(StoredHeaders)
  /\ now = 0
  /\ out = Idle

SpecStore == InitStore /\ [][Next]_vars

(***************************************************************************)
(* Storability (properties of SpecStore)                                   *)
(***************************************************************************)
\* the statuses the storability rule names as understood
UnderstoodByTheRule ==
  {200, 203, 204, 300, 301, 302, 303, 307, 308, 404, 405, 410, 414, 501}

\* the statuses the storability rule names as cacheable by default
CacheableByDefaultByTheRule ==
  {200, 203, 204, 206, 300, 301, 308, 404, 405, 410, 414, 501}

\* explicit expiration: s-maxage when shared, max-age, or an Expires header
ExplicitExpiration(P) ==
  \/ (P.opts.shared /\ "s-maxage" \in DOMAIN P.res_cc)
  \/ "max-age" \in DOMAIN P.res_cc
  \/ "expires" \in DOMAIN P.res

\* the seven conditions of the storability rule
StorableByTheRule(P) ==
  /\ "no-store" \notin DOMAIN P.req_cc
  /\ P.method \in {"GET", "HEAD"} \/ (P.method = "POST" /\ ExplicitExpiration(P))
  /\ P.status \in UnderstoodByTheRule
  /\ "no-store" \notin DOMAIN P.res_cc
  /\ P.opts.shared => "private" \notin DOMAIN P.res_cc
  /\ (P.opts.shared /\ "authorization" \in DOMAIN P.req)
       => ({"must-revalidate", "public", "s-maxage"} \cap DOMAIN P.res_cc) # {}
  /\ \/ "expires" \in DOMAIN P.res
     \/ "max-age" \in DOMAIN P.res_cc
     \/ (P.opts.shared /\ "s-maxage" \in DOMAIN P.res_cc)
     \/ "public" \in DOMAIN P.res_cc
     \/ P.status \in CacheableByDefaultByTheRule

\* C1: is_storable returns true exactly when the seven conditions of the
\* storability rule hold (request without no-store; GET, HEAD, or POST with
\* explicit expiration; an understood status; response without no-store;
\* no private when shared; must-revalidate, public or s-maxage when shared
\* and the request has Authorization; an indicator of cacheability), and a
\* status outside the understood set is never storable.
C1_StorableIffRule ==
  out.op = "is_storable" =>
    /\ out.val <=> StorableByTheRule(policy)
    /\ policy.status \notin UnderstoodByTheRule => ~out.val

\* C1: is_storable has returned true for a 302 response, which only its
\* max-age makes storable, and the policy is one of a shared cache
C1_StoredByMaxAge ==
  /\ out.op = "is_storable" /\ out.val
  /\ policy.status = 302 /\ policy.opts.shared
  /\ "max-age" \in DOMAIN policy.res_cc
  /\ "expires" \notin DOMAIN policy.res

\* the policy, had its request carried no Authorization header
WithoutAuthorization(P) == [P EXCEPT !.req = remove(P.req, "authorization")]

\* C2: in a shared cache a response to a request with Authorization is
\* storable only if its directives contain must-revalidate, public or
\* s-maxage; in a private cache is_storable returns what it returns for
\* the same policy without the Authorization header.
C2_AuthorizationNeedsPermission ==
  out.op = "is_storable" =>
    /\ (out.val /\ policy.opts.shared /\ "authorization" \in DOMAIN policy.req)
         => \/ "must-revalidate" \in DOMAIN policy.res_cc
            \/ "public" \in DOMAIN policy.res_cc
            \/ "s-maxage" \in DOMAIN policy.res_cc
    /\ ~policy.opts.shared
         => out.val = is_storable(WithoutAuthorization(policy))

\* C2: is_storable has returned true in a shared cache for a request with
\* Authorization whose response has s-maxage
C2_AuthorizedStored ==
  /\ out.op = "is_storable" /\ out.val
  /\ policy.opts.shared
  /\ "authorization" \in DOMAIN policy.req
  /\ "s-maxage" \in DOMAIN policy.res_cc

\* C3: a storable POST policy has explicit expiration (s-maxage when
\* shared, max-age or Expires), so neither a status cacheable by default
\* nor a bare public makes it storable; and a storable policy's method is
\* GET, HEAD or POST.
C3_PostNeedsExplicitExpiration ==
  (out.op = "is_storable" /\ out.val) =>
    /\ policy.method \in {"GET", "HEAD", "POST"}
    /\ policy.method = "POST" => ExplicitExpiration(policy)

\* C3: is_storable has returned true for a POST whose response has only an
\* Expires header to make it expire
C3_PostStoredByExpires ==
  /\ out.op = "is_storable" /\ out.val
  /\ policy.method = "POST"
  /\ "expires" \in DOMAIN policy.res
  /\ "max-age" \notin DOMAIN policy.res_cc
  /\ "s-maxage" \notin DOMAIN policy.res_cc

(***************************************************************************)
(* Lifetime and reuse (properties of Spec)                                 *)
(***************************************************************************)
\* C4: for a policy that is not storable, max_age is 0, and at every time
\* time_to_live returns 0 and is_stale returns true.
C4_NotStorableHasNoLifetime ==
  ~is_storable(policy) =>
    /\ max_age(policy) = 0
    /\ out.op = "time_to_live" => (~out.panic /\ out.val = 0)
    /\ out.op = "is_stale" => (~out.panic /\ out.val = TRUE)

\* C4: time_to_live has been called on a policy that is not storable and
\* has panicked in age
C4_NotStorableOverflow ==
  /\ ~is_storable(policy)
  /\ out.op = "time_to_live" /\ out.panic

\* C4, where the operations return: for a policy that is not storable,
\* max_age is 0, time_to_live returns 0 and is_stale returns true.
C4_NotStorableHasNoLifetimeWhereReturned ==
  ~is_storable(policy) =>
    /\ max_age(policy) = 0
    /\ (out.op = "time_to_live" /\ ~out.panic) => out.val = 0
    /\ (out.op = "is_stale" /\ ~out.panic) => out.val = TRUE

\* the request and the policy agree on URI, Host, the varying headers and
\* the method
ExactMatch(P, R) ==
  /\ R.uri = P.uri
  /\ get(R.headers, "host") = get(P.req, "host")
  /\ vary_matches(P, R)
  /\ R.method = P.method

\* the directives of the request's Cache-Control
RequestDirectives(R) == parse_cache_control(get_all(R.headers, "cache-control"))

\* the request is satisfied by the stored response without revalidation
\* at time t: no no-cache in Cache-Control or Pragma; age within the
\* request's max-age; time to live at least its min-fresh; and, when the
\* response is stale, a max-stale that admits the staleness (a bare one,
\* one that is no integer, or an integer above it) and no must-revalidate
SatisfiedWithoutRevalidation(P, R, t) ==
  /\ "no-cache" \notin DOMAIN RequestDirectives(R)
  /\ ~(IsSome(get(R.headers, "pragma"))
        /\ Contains(Unwrap(get(R.headers, "pragma")), "no-cache"))
  /\ IsSome(DirectiveU64(RequestDirectives(R), "max-age"))
       => age(P, t) <= Unwrap(DirectiveU64(RequestDirectives(R), "max-age"))
  /\ IsSome(DirectiveU64(RequestDirectives(R), "min-fresh"))
       => time_to_live(P, t) >= Unwrap(DirectiveU64(RequestDirectives(R), "min-fresh"))
  /\ is_stale(P, t)
       => /\ "max-stale" \in DOMAIN RequestDirectives(R)
          /\ IsSome(DirectiveU64(RequestDirectives(R), "max-stale"))
               => Unwrap(DirectiveU64(RequestDirectives(R), "max-stale"))
                    > age(P, t) - max_age(P)
          /\ "must-revalidate" \notin DOMAIN P.res_cc

\* C5: before_request returns Fresh exactly when the request is an exact
\* match and is satisfied without revalidation; in every other case it
\* returns Stale, whose matches flag is the exact match.
C5_FreshIffMatchedAndSatisfied ==
  out.op = "before_request" =>
    /\ ~out.panic
    /\ out.val.kind = "Fresh"
         <=> (ExactMatch(policy, request)
              /\ SatisfiedWithoutRevalidation(policy, request, out.at))
    /\ out.val.kind # "Fresh"
         => (out.val.kind = "Stale"
             /\ out.val.matches = ExactMatch(policy, request))

\* C5: before_request has been called with an exact match and has neither
\* returned Fresh nor Stale: it has panicked in age
C5_MatchedOverflow ==
  /\ out.op = "before_request" /\ out.panic
  /\ ExactMatch(policy, request)

\* C5, where before_request returns: it returns Fresh exactly when the
\* request is an exact match and is satisfied without revalidation, and
\* otherwise Stale, whose matches flag is the exact match.
C5_FreshIffMatchedAndSatisfiedWhereReturned ==
  (out.op = "before_request" /\ ~out.panic) =>
    /\ out.val.kind = "Fresh"
         <=> (ExactMatch(policy, request)
              /\ SatisfiedWithoutRevalidation(policy, request, out.at))
    /\ out.val.kind # "Fresh"
         => (out.val.kind = "Stale"
             /\ out.val.matches = ExactMatch(policy, request))

\* C6: when before_request returns Fresh, the policy is not stale, or the
\* request has max-stale and the response's directives have no
\* must-revalidate; so a policy with must-revalidate is Stale once it is
\* stale, and Fresh for the request it was stored for while it is fresh.
C6_FreshOnlyIfNotStaleOrMaxStale ==
  (out.op = "before_request" /\ ~out.panic) =>
    /\ out.val.kind = "Fresh"
         => \/ ~is_stale(policy, out.at)
            \/ /\ "max-stale" \in DOMAIN RequestDirectives(request)
               /\ "must-revalidate" \notin DOMAIN policy.res_cc
    /\ ("must-revalidate" \in DOMAIN policy.res_cc /\ is_stale(policy, out.at))
         => out.val.kind = "Stale"
    /\ ("must-revalidate" \in DOMAIN policy.res_cc /\ ~is_stale(policy, out.at)
         /\ request = Get(policy.req))
         => out.val.kind = "Fresh"

\* C6: before_request has returned Fresh for a stale policy
C6_StaleServed ==
  /\ out.op = "before_request" /\ ~out.panic
  /\ out.val.kind = "Fresh"
  /\ is_stale(policy, out.at)

\* C7: is_stale returns true exactly when max_age <= age, which is exactly
\* when time_to_live is 0; and time_to_live returns the saturating
\* difference: with age it sums to max_age when age <= max_age, and to at
\* least max_age always.
C7_StaleIffLifetimeSpent ==
  /\ out.op = "is_stale" =>
       /\ ~out.panic
       /\ out.val <=> (max_age(policy) <= age(policy, out.at))
       /\ out.val <=> (time_to_live(policy, out.at) = 0)
  /\ out.op = "time_to_live" =>
       /\ ~out.panic
       /\ age(policy, out.at) <= max_age(policy)
            => out.val + age(policy, out.at) = max_age(policy)
       /\ out.val + age(policy, out.at) >= max_age(policy)

\* C7: is_stale has been called and has panicked in age
C7_StaleOverflow ==
  out.op = "is_stale" /\ out.panic

\* C7, where the operations return: is_stale is max_age <= age and is
\* time_to_live = 0, and time_to_live is the saturating difference.
C7_StaleIffLifetimeSpentWhereReturned ==
  /\ (out.op = "is_stale" /\ ~out.panic) =>
       /\ out.val <=> (max_age(policy) <= age(policy, out.at))
       /\ out.val <=> (time_to_live(policy, out.at) = 0)
  /\ (out.op = "time_to_live" /\ ~out.panic) =>
       /\ age(policy, out.at) <= max_age(policy)
            => out.val + age(policy, out.at) = max_age(policy)
       /\ out.val + age(policy, out.at) >= max_age(policy)

\* C8: at every time age returns at least the value of the Age header; it
\* returns that value plus the time since response_time from response_time
\* on, and that value before response_time.
C8_AgeIsHeaderPlusResidentTime ==
  out.op = "age" =>
    /\ ~out.panic
    /\ out.val >= age_header_value(policy)
    /\ out.at >= policy.response_time
         => out.val = age_header_value(policy) + (out.at - policy.response_time)
    /\ out.at < policy.response_time => out.val = age_header_value(policy)

\* C8: age has been called after response_time on a policy whose Age
\* header is the largest u64, and has panicked
C8_AgeOverflow ==
  /\ out.op = "age" /\ out.panic
  /\ age_header_value(policy) = U64_MAX
  /\ out.at > policy.response_time

\* C8, where age returns: it returns the Age header's value plus the time
\* since response_time, or the Age header's value before response_time.
C8_AgeIsHeaderPlusResidentTimeWhereReturned ==
  (out.op = "age" /\ ~out.panic) =>
    /\ out.val >= age_header_value(policy)
    /\ out.at >= policy.response_time
         => out.val = age_header_value(policy) + (out.at - policy.response_time)
    /\ out.at < policy.response_time => out.val = age_header_value(policy)

\* C8, where age returns: a later call returns no less than an earlier one
C8_AgeNonDecreasingWhereReturned ==
  [][(out.op = "age" /\ out'.op = "age" /\ ~out.panic /\ ~out'.panic)
       => out'.val >= out.val]_vars

\* C9: from response_time on, a later time_to_live returns no more than an
\* earlier one, a later is_stale returns true when an earlier one did,
\* and a later before_request does not return Fresh when an earlier one
\* returned Stale.
C9_FreshnessNeverRegained ==
  [][(out.op # "new" /\ out'.op = out.op /\ out.at >= policy.response_time) =>
       /\ (out.op = "time_to_live" /\ ~out.panic)
            => (~out'.panic /\ out'.val <= out.val)
       /\ (out.op = "is_stale" /\ ~out.panic /\ out.val)
            => (~out'.panic /\ out'.val)
       /\ (out.op = "before_request" /\ ~out.panic /\ out.val.kind = "Stale"
           /\ ~out'.panic)
            => out'.val.kind = "Stale"]_vars

\* C9: is_stale has panicked on a policy that was stale at response_time
C9_StaleThenOverflow ==
  /\ out.op = "is_stale" /\ out.panic
  /\ is_stale(policy, policy.response_time)

\* C9, where the operations return: a later time_to_live returns no more
\* than an earlier one, a later is_stale returns true when an earlier one
\* did, and a later before_request returns Stale when an earlier one did.
C9_FreshnessNeverRegainedWhereReturned ==
  [][(out.op # "new" /\ out'.op = out.op /\ ~out.panic /\ ~out'.panic) =>
       /\ out.op = "time_to_live" => out'.val <= out.val
       /\ (out.op = "is_stale" /\ out.val) => out'.val
       /\ (out.op = "before_request" /\ out.val.kind = "Stale")
            => out'.val.kind = "Stale"]_vars

\* the name of a Cache-Control part, and its value without its quotes
DirectiveName(part) == Trim(SplitN2(part, "=").k)

DirectiveText(part) ==
  IF IsSome(SplitN2(part, "=").v)
  THEN Some(TrimMatches(Trim(Unwrap(SplitN2(part, "=").v)), "\""))
  ELSE None

\* some directive occurs twice in the header's values with different values
ConflictingDuplicates(values) ==
  LET parts == get_all_comma(values) IN
  \E i, j \in 1..Len(parts) :
    /\ i < j
    /\ DirectiveName(parts[i]) # ""
    /\ DirectiveName(parts[i]) = DirectiveName(parts[j])
    /\ DirectiveText(parts[i]) # DirectiveText(parts[j])

\* the header's values name the directive
Names(values, name) ==
  LET parts == get_all_comma(values) IN
  \E i \in 1..Len(parts) : DirectiveName(parts[i]) = name

\* the policy was built with ignore_cargo_cult from a response that has
\* both pre-check and post-check
CargoCultIgnored(P, res) ==
  /\ P.opts.ignore_cargo_cult
  /\ Names(get_all(res, "cache-control"), "pre-check")
  /\ Names(get_all(res, "cache-control"), "post-check")

\* C10, as claimed: when the response's Cache-Control has a directive
\* twice with different values, before_request does not return Fresh once
\* the policy is stale.
C10_ConflictForbidsStale ==
  (/\ out.op = "before_request" /\ ~out.panic
   /\ is_stale(policy, out.at)
   /\ ConflictingDuplicates(get_all(response, "cache-control")))
    => out.val.kind = "Stale"

\* C10, amended: when the response's Cache-Control has a directive twice
\* with different values, and the policy was not built with
\* ignore_cargo_cult from a response with both pre-check and post-check,
\* before_request does not return Fresh once the policy is stale.
C10_ConflictForbidsStaleUnlessCargoCultIgnored ==
  (/\ out.op = "before_request" /\ ~out.panic
   /\ is_stale(policy, out.at)
   /\ ConflictingDuplicates(get_all(response, "cache-control"))
   /\ ~CargoCultIgnored(policy, response))
    => out.val.kind = "Stale"

\* C10: before_request has returned Stale to an exactly matching request
\* with max-stale, for a stale policy of a response with two different
\* max-age values
C10_ConflictRefusedMaxStale ==
  /\ out.op = "before_request" /\ ~out.panic
  /\ out.val.kind = "Stale" /\ out.val.matches
  /\ is_stale(policy, out.at)
  /\ "max-stale" \in DOMAIN RequestDirectives(request)
  /\ ConflictingDuplicates(get_all(response, "cache-control"))
  /\ ~CargoCultIgnored(policy, response)

(***************************************************************************)
(* Inputs of SpecVary: stored requests and new requests that differ in     *)
(* the headers the stored response's Vary names, and in one it does not.   *)
(***************************************************************************)
VaryValues ==
  {"weather", "Weather", " weather ", "*", "weather, accept",
   "accept, weather", "weather, *", "accept,,weather"}

VaryInputs ==
  {Input("GET",
         Hdr("host", Some("a")) @@ Hdr("weather", w) @@ Hdr("accept", a),
         200,
         Hdr("cache-control", Some("max-age=2")) @@ Hdr("vary", Some(v)),
         0, DefaultOptions) :
     w \in Optional({"nice", ""}), a \in Optional({"x"}), v \in VaryValues}

VaryRequests ==
  {Get(Hdr("host", Some("a")) @@ Hdr("weather", w) @@ Hdr("accept", a)
         @@ Hdr("x-other", x)) :
     w \in Optional({"nice", "Nice", ""}), a \in Optional({"x", "y"}),
     x \in Optional({"1"})}
  \cup
  {Get(Hdr("host", Some("a")) @@ ("weather" :> <<"nice", "bad">>))}

InitVary ==
  /\ \E i \in VaryInputs :
       /\ response = i.res
       /\ policy \in NewPolicy(i)
  /\ request \in VaryRequests
  /\ now = 0
  /\ out = Idle

SpecVary == InitVary /\ [][Next]_vars

(***************************************************************************)
(* Vary (properties of SpecVary)                                           *)
(***************************************************************************)
\* the trimmed comma-separated entries of the stored response's Vary
VaryEntries(P) ==
  {get_all_comma(get_all(P.res, "vary"))[i] :
     i \in 1..Len(get_all_comma(get_all(P.res, "vary")))}

\* no entry of Vary is *, and for every entry, taken as a lower-case header
\* name, the new request and the stored request have the same value or
\* both have none (of several values of a name the first one is compared)
VaryRule(P, R) ==
  \A e \in VaryEntries(P) :
    /\ e # "*"
    /\ get(R.headers, ToAsciiLowercase(e)) = get(P.req, ToAsciiLowercase(e))

\* C11: before_request returns Fresh only if no entry of the stored Vary
\* is * and the new request agrees with the stored request on every
\* header Vary names (both absent, or both present with the same text);
\* and a request that agrees with the stored one on URI, Host and method
\* is matched exactly when it agrees on those headers, whatever the order
\* of the names and whatever its other headers.
C11_FreshOnlyIfVaryMatches ==
  (out.op = "before_request" /\ ~out.panic) =>
    /\ out.val.kind = "Fresh" => VaryRule(policy, request)
    /\ (/\ out.val.kind = "Stale"
        /\ request.uri = policy.uri
        /\ request.method = policy.method
        /\ get(request.headers, "host") = get(policy.req, "host"))
         => (out.val.matches <=> VaryRule(policy, request))

\* C11: before_request has returned Fresh for a policy whose Vary names
\* two headers, one of them absent from both requests, to a request that
\* has a header Vary does not name
C11_VaryingRequestServed ==
  /\ out.op = "before_request" /\ ~out.panic
  /\ out.val.kind = "Fresh"
  /\ get_all(policy.res, "vary") = <<"accept, weather">>
  /\ "accept" \notin DOMAIN policy.req
  /\ "weather" \in DOMAIN request.headers
  /\ "x-other" \in DOMAIN request.headers

(***************************************************************************)
(* Inputs of SpecLifetime: storable and non-storable GET responses with    *)
(* every combination of the sources of the freshness lifetime (s-maxage,   *)
(* max-age, Expires, Last-Modified, immutable) and of the headers that     *)
(* force it to zero, for shared and private caches.                        *)
(***************************************************************************)
Date0 == "Thu, 01 Jan 1970 00:00:00 GMT"

\* two and three seconds before the epoch
DateBefore2 == "Wed, 31 Dec 1969 23:59:58 GMT"
DateBefore3 == "Wed, 31 Dec 1969 23:59:57 GMT"

NoFloor == [DefaultOptions EXCEPT !.immutable_min_time_to_live = 0]

PrecedenceCC ==
  {"s-maxage=2, max-age=1", "public, s-maxage=3", "s-maxage=x, max-age=1",
   "s-maxage, max-age=1", "max-age=1", "max-age=x", "max-age",
   "public, max-age=1", "public", "immutable", "immutable, max-age=0",
   "immutable, max-age", "immutable, s-maxage=1", "no-cache, immutable",
   "proxy-revalidate, immutable", "no-store, immutable"}

PrecedenceInputs ==
  {Input("GET", StoredHeaders, 200,
         Hdr("cache-control", cc) @@ Hdr("expires", e)
           @@ Hdr("set-cookie", c) @@ Hdr("vary", v),
         1, opts) :
     cc \in Optional(PrecedenceCC), e \in Optional({Date0, Date3, "0"}),
     c \in Optional({"a=b"}), v \in Optional({"*"}),
     opts \in {DefaultOptions, Private, NoFloor}}
  \cup
  {Input("GET", StoredHeaders, 200,
         Hdr("cache-control", cc) @@ Hdr("last-modified", Some(Date3))
           @@ Hdr("date", Some(Date30)),
         1, opts) :
     cc \in Optional(PrecedenceCC), opts \in {DefaultOptions, Private, NoFloor}}
  \cup
  {Input("GET", StoredHeaders, 200,
         Hdr("cache-control", cc) @@ Hdr("set-cookie", Some("a=b"))
           @@ Hdr("age", Some(U64MaxText)),
         1, opts) :
     cc \in Optional(PrecedenceCC), opts \in {DefaultOptions, Private}}
  \cup
  {Input("GET", StoredHeaders, 200,
         Hdr("cache-control", cc) @@ Hdr("expires", Some(e)) @@ Hdr("date", d),
         1, opts) :
     cc \in Optional({"public", "immutable"}),
     e \in {Date0, Date30, "0", DateBefore2},
     d \in Optional({Date3, "yesterday", DateBefore3}),
     opts \in {DefaultOptions, NoFloor}}
  \cup
  {Input("GET", StoredHeaders, 200,
         Hdr("cache-control", cc) @@ Hdr("pragma", p) @@ Hdr("expires", e)
           @@ Hdr("age", a),
         1, DefaultOptions) :
     cc \in Optional({"", "max-age=2", "no-cache", "public"}),
     p \in Optional({"no-cache", "x,no-cache", "cache"}),
     e \in Optional({Date3}), a \in Optional({U64MaxText})}

InitLifetime ==
  /\ \E i \in PrecedenceInputs :
       /\ response = i.res
       /\ policy \in NewPolicy(i)
  /\ request = Get(StoredHeaders)
  /\ now = 0
  /\ out = Idle

SpecLifetime == InitLifetime /\ [][Next]_vars

(***************************************************************************)
(* Sources of the freshness lifetime (properties of SpecLifetime)          *)
(***************************************************************************)
\* none of the rules that force the lifetime to zero applies: the response
\* is storable, has no no-cache, no Vary of *, and in a shared cache no
\* proxy-revalidate and no Set-Cookie without public or immutable
NoZeroRule(P) ==
  /\ is_storable(P)
  /\ "no-cache" \notin DOMAIN P.res_cc
  /\ ~(/\ P.opts.shared
       /\ "set-cookie" \in DOMAIN P.res
       /\ "public" \notin DOMAIN P.res_cc
       /\ "immutable" \notin DOMAIN P.res_cc)
  /\ ~("vary" \in DOMAIN P.res /\ Trim(P.res["vary"][1]) = "*")
  /\ ~(P.opts.shared /\ "proxy-revalidate" \in DOMAIN P.res_cc)

\* the integer seconds of a directive that is present, 0 where its value
\* is missing or is not an integer
DirectiveSeconds(cc, k) ==
  IF cc[k] = None THEN 0 ELSE ParseOrZero(Unwrap(cc[k]))

WithoutDirective(P, k) ==
  [P EXCEPT !.res_cc = [d \in (DOMAIN P.res_cc) \ {k} |-> P.res_cc[d]]]

\* a policy that came from a response with an s-maxage that has a value,
\* or with none
SMaxageHasValue(P) ==
  "s-maxage" \in DOMAIN P.res_cc => P.res_cc["s-maxage"] # None

MaxAgeHasValue(P) ==
  "max-age" \in DOMAIN P.res_cc => P.res_cc["max-age"] # None

\* C12: where no rule forces the lifetime to zero, in a shared cache a
\* response with s-maxage has the lifetime s-maxage gives (0 if it is not
\* an integer), whatever max-age and Expires say, and time_to_live returns
\* what is left of it; in a private cache the lifetime is what it would be
\* without the s-maxage directive.
C12_SMaxageOnlyWhenShared ==
  NoZeroRule(policy) =>
    /\ (policy.opts.shared /\ "s-maxage" \in DOMAIN policy.res_cc) =>
         /\ max_age(policy) = DirectiveSeconds(policy.res_cc, "s-maxage")
         /\ (out.op = "time_to_live" /\ ~out.panic) =>
              out.val = Max(0, DirectiveSeconds(policy.res_cc, "s-maxage")
                                 - age(policy, out.at))
    /\ ~policy.opts.shared =>
         max_age(policy) = max_age(WithoutDirective(policy, "s-maxage"))

\* C12 for the responses whose s-maxage, if any, has a value
C12_SMaxageWithValueOnlyWhenShared ==
  SMaxageHasValue(policy) => C12_SMaxageOnlyWhenShared

\* C12: time_to_live has returned a positive time for a shared policy
\* whose response has an s-maxage without a value, next to max-age=1
C12_BareSMaxageFallsThrough ==
  /\ out.op = "time_to_live" /\ ~out.panic /\ out.val = 1
  /\ policy.opts.shared /\ NoZeroRule(policy)
  /\ "s-maxage" \in DOMAIN policy.res_cc
  /\ policy.res_cc["s-maxage"] = None

\* C12: time_to_live has returned 3 s for a shared policy with s-maxage=3
\* and an Expires that has passed
C12_SMaxageBeatsExpires ==
  /\ out.op = "time_to_live" /\ ~out.panic /\ out.val = 3
  /\ policy.opts.shared /\ NoZeroRule(policy)
  /\ policy.res_cc["s-maxage"] = Some("3")
  /\ get_str(policy.res, "expires") = Some(Date0)

\* C13: where no rule forces the lifetime to zero and no s-maxage is there
\* to apply, a response with max-age has the lifetime max-age gives (0 if
\* it is not an integer), whatever Expires says.
C13_MaxAgeBeatsExpires ==
  (/\ NoZeroRule(policy)
   /\ "max-age" \in DOMAIN policy.res_cc
   /\ ~(policy.opts.shared /\ "s-maxage" \in DOMAIN policy.res_cc)) =>
    /\ max_age(policy) = DirectiveSeconds(policy.res_cc, "max-age")
    /\ (out.op = "time_to_live" /\ ~out.panic) =>
         out.val = Max(0, DirectiveSeconds(policy.res_cc, "max-age")
                            - age(policy, out.at))

\* C13 for the responses whose max-age has a value
C13_MaxAgeWithValueBeatsExpires ==
  MaxAgeHasValue(policy) => C13_MaxAgeBeatsExpires

\* C13: time_to_live has returned the 2 s that Expires gives for a policy
\* whose response has a max-age without a value
C13_BareMaxAgeUsesExpires ==
  /\ out.op = "time_to_live" /\ ~out.panic /\ out.val = 2
  /\ NoZeroRule(policy)
  /\ policy.res_cc = ("max-age" :> None)
  /\ get_str(policy.res, "expires") = Some(Date3)

\* C13: time_to_live has returned 1 s for a policy with max-age=1 and an
\* Expires that lies further in the future
C13_MaxAgeBeatsLaterExpires ==
  /\ out.op = "time_to_live" /\ ~out.panic /\ out.val = 1
  /\ NoZeroRule(policy)
  /\ policy.res_cc = ("max-age" :> Some("1"))
  /\ get_str(policy.res, "expires") = Some(Date3)

(***************************************************************************)
(* Inputs of SpecReuse: policies with a lifetime of one to three seconds   *)
(* and the requests whose max-age, min-fresh and max-stale bound the age,  *)
(* the time to live and the staleness they accept.                         *)
(***************************************************************************)
ConstraintResponseCC ==
  {"max-age=1", "max-age=2", "max-age=3", "max-age=1, must-revalidate"}

ConstraintInputs ==
  {Input("GET", StoredHeaders, 200,
         Hdr("cache-control", Some(cc)) @@ Hdr("age", a), 0, DefaultOptions) :
     cc \in ConstraintResponseCC, a \in Optional({"1", U64MaxText})}

ConstraintRequestCC ==
  {"max-age=0", "max-age=1", "max-age=2", "max-age=x", "max-age",
   "min-fresh=0", "min-fresh=1", "min-fresh=2", "min-fresh=x",
   "max-age=1, min-fresh=1", "only-if-cached", "no-transform, x=1",
   "no-cache", "max-stale", "max-stale=0", "max-stale=1", "max-stale=2",
   "max-stale, max-age=1", "max-stale, max-age=3", "max-stale=1, min-fresh=0",
   "max-stale, min-fresh=1", "max-stale, no-cache"}

ConstraintRequests ==
  {Get(StoredHeaders @@ Hdr("cache-control", cc)) :
     cc \in Optional(ConstraintRequestCC)}
  \cup
  {Get(Hdr("host", Some("b")) @@ Hdr("cache-control", Some("max-stale")))}

InitReuse ==
  /\ \E i \in ConstraintInputs :
       /\ response = i.res
       /\ policy \in NewPolicy(i)
  /\ request \in ConstraintRequests
  /\ now = 0
  /\ out = Idle

SpecReuse == InitReuse /\ [][Next]_vars

(***************************************************************************)
(* The request's own bounds (properties of SpecReuse)                      *)
(***************************************************************************)
\* the age is within the request's max-age and the time to live is at
\* least the request's min-fresh, where these are integers
WithinRequestBounds(P, R, t) ==
  /\ IsSome(DirectiveU64(RequestDirectives(R), "max-age"))
       => age(P, t) <= Unwrap(DirectiveU64(RequestDirectives(R), "max-age"))
  /\ IsSome(DirectiveU64(RequestDirectives(R), "min-fresh"))
       => time_to_live(P, t) >= Unwrap(DirectiveU64(RequestDirectives(R), "min-fresh"))

\* C14: when before_request returns Fresh, the age is at most the
\* request's max-age and the time to live is at least the request's
\* min-fresh, where these are integers; and a request whose Cache-Control
\* has neither directive gets Fresh from a policy it matches exactly and
\* that is not stale, unless it asks for no-cache.
C14_FreshOnlyWithinRequestBounds ==
  (out.op = "before_request" /\ ~out.panic) =>
    /\ out.val.kind = "Fresh" =>
         WithinRequestBounds(policy, request, out.at)
    /\ (/\ "max-age" \notin DOMAIN RequestDirectives(request)
        /\ "min-fresh" \notin DOMAIN RequestDirectives(request)
        /\ "no-cache" \notin DOMAIN RequestDirectives(request)
        /\ ExactMatch(policy, request)
        /\ ~is_stale(policy, out.at))
         => out.val.kind = "Fresh"

\* C14: before_request has returned Fresh to a request with max-age=1 and
\* min-fresh=1 at age 1, with 1 s left to live
C14_FreshAtTheBounds ==
  /\ out.op = "before_request" /\ ~out.panic
  /\ out.val.kind = "Fresh"
  /\ DirectiveValue(RequestDirectives(request), "max-age") = Some("1")
  /\ DirectiveValue(RequestDirectives(request), "min-fresh") = Some("1")
  /\ age(policy, out.at) = 1
  /\ time_to_live(policy, out.at) = 1

\* the request is satisfiable but for the staleness of the response: no
\* no-cache, and within the request's max-age and min-fresh
OtherwiseSatisfiable(P, R, t) ==
  /\ "no-cache" \notin DOMAIN RequestDirectives(R)
  /\ "pragma" \notin DOMAIN R.headers
  /\ WithinRequestBounds(P, R, t)

\* what before_request returns for a max-stale request to a stale policy
MaxStaleRule(P, R, t, val) ==
  /\ DirectiveValue(RequestDirectives(R), "max-stale") = None
       => val.kind = "Fresh"
  /\ IsSome(DirectiveU64(RequestDirectives(R), "max-stale"))
       => (val.kind = "Fresh"
             <=> Unwrap(DirectiveU64(RequestDirectives(R), "max-stale"))
                   > age(P, t) - max_age(P))

\* the policy is stale, has no must-revalidate, and the request, which
\* has max-stale, is an exact match that is otherwise satisfiable
StaleWithMaxStale(P, R, t) ==
  /\ "max-stale" \in DOMAIN RequestDirectives(R)
  /\ ExactMatch(P, R)
  /\ max_age(P) <= age(P, t)
  /\ "must-revalidate" \notin DOMAIN P.res_cc
  /\ OtherwiseSatisfiable(P, R, t)

\* C15: for a stale policy without must-revalidate and an exact-match
\* request that is otherwise satisfiable, before_request returns Fresh if
\* the request's max-stale has no value, and for max-stale=V with an
\* integer V it returns Fresh exactly when V > age - max_age.
C15_MaxStaleAdmitsStaleness ==
  (out.op = "before_request" /\ StaleWithMaxStale(policy, request, out.at)) =>
    /\ ~out.panic
    /\ MaxStaleRule(policy, request, out.at, out.val)

\* C15: before_request was given a bare max-stale for a stale policy
\* without must-revalidate and has not returned Fresh: it has panicked
C15_MaxStaleOverflow ==
  /\ out.op = "before_request" /\ out.panic
  /\ StaleWithMaxStale(policy, request, out.at)
  /\ RequestDirectives(request) = ("max-stale" :> None)

\* C15, where before_request returns
C15_MaxStaleAdmitsStalenessWhereReturned ==
  (/\ out.op = "before_request" /\ ~out.panic
   /\ StaleWithMaxStale(policy, request, out.at)) =>
    MaxStaleRule(policy, request, out.at, out.val)

\* C15: before_request has returned Stale to max-stale=1 for a policy
\* that is exactly 1 s past its lifetime
C15_MaxStaleEqualToStalenessRefused ==
  /\ out.op = "before_request" /\ ~out.panic
  /\ StaleWithMaxStale(policy, request, out.at)
  /\ DirectiveValue(RequestDirectives(request), "max-stale") = Some("1")
  /\ age(policy, out.at) - max_age(policy) = 1
  /\ out.val.kind = "Stale"

(***************************************************************************)
(* Set-Cookie and immutable (properties of SpecLifetime)                  *)
(***************************************************************************)
\* a storable response with Set-Cookie and neither public nor immutable,
\* in a shared cache
UnsharedCookie(P) ==
  /\ P.opts.shared
  /\ is_storable(P)
  /\ "set-cookie" \in DOMAIN P.res
  /\ "public" \notin DOMAIN P.res_cc
  /\ "immutable" \notin DOMAIN P.res_cc

WithoutHeader(P, name) ==
  [P EXCEPT !.res = [h \in (DOMAIN P.res) \ {name} |-> P.res[h]]]

\* what the operations return for the policy of an unshared cookie
CookieRule(P, o) ==
  /\ o.op = "is_storable" => o.val = TRUE
  /\ o.op = "time_to_live" => o.val = 0
  /\ o.op = "is_stale" => o.val = TRUE

\* C16: in a shared cache, a storable response with Set-Cookie and
\* neither public nor immutable has lifetime 0: is_storable returns true,
\* time_to_live returns 0 and is_stale returns true at every time; with
\* public or immutable, or in a private cache, the lifetime is what it
\* would be without the Set-Cookie header.
C16_CookieNotSharedUnlessPublic ==
  /\ UnsharedCookie(policy) =>
       /\ max_age(policy) = 0
       /\ out.op \in {"is_storable", "time_to_live", "is_stale"} =>
            (~out.panic /\ CookieRule(policy, out))
  /\ ~UnsharedCookie(policy) =>
       max_age(policy) = max_age(WithoutHeader(policy, "set-cookie"))

\* C16: is_stale was called on the policy of an unshared cookie and has
\* not returned true: it has panicked
C16_CookieOverflow ==
  /\ out.op = "is_stale" /\ out.panic
  /\ UnsharedCookie(policy)

\* C16, where the operations return
C16_CookieNotSharedUnlessPublicWhereReturned ==
  /\ UnsharedCookie(policy) =>
       /\ max_age(policy) = 0
       /\ (out.op \in {"is_storable", "time_to_live", "is_stale"}
             /\ ~out.panic) => CookieRule(policy, out)
  /\ ~UnsharedCookie(policy) =>
       max_age(policy) = max_age(WithoutHeader(policy, "set-cookie"))

\* C16: is_stale has returned true, at the moment of the response, for a
\* shared policy with Set-Cookie and max-age=1
C16_CookieStaleAtOnce ==
  /\ out.op = "is_stale" /\ ~out.panic /\ out.val = TRUE
  /\ out.at = policy.response_time
  /\ UnsharedCookie(policy)
  /\ policy.res_cc = ("max-age" :> Some("1"))

\* a response with immutable to which no s-maxage applies and whose
\* lifetime no rule forces to zero
Immutable(P) ==
  /\ NoZeroRule(P)
  /\ "immutable" \in DOMAIN P.res_cc
  /\ ~(P.opts.shared /\ "s-maxage" \in DOMAIN P.res_cc)

ExpiresAbsentOrParseable(P) ==
  "expires" \in DOMAIN P.res => ParseRfc2822(P.res["expires"][1]) # None

\* C17: where no rule forces the lifetime to zero and no s-maxage
\* applies, a response with immutable, without max-age and with an absent
\* or parseable Expires has a lifetime of at least
\* immutable_min_time_to_live; with max-age, the lifetime is what max-age
\* gives, and is_stale returns whether the age has reached it.
C17_ImmutableFloorUnlessMaxAge ==
  Immutable(policy) =>
    /\ ("max-age" \notin DOMAIN policy.res_cc
         /\ ExpiresAbsentOrParseable(policy))
         => max_age(policy) >= policy.opts.immutable_min_time_to_live
    /\ "max-age" \in DOMAIN policy.res_cc =>
         /\ max_age(policy) = DirectiveSeconds(policy.res_cc, "max-age")
         /\ (out.op = "is_stale" /\ ~out.panic) =>
              out.val = (DirectiveSeconds(policy.res_cc, "max-age")
                           <= age(policy, out.at))

\* C17 for the responses whose max-age, if any, has a value
C17_ImmutableFloorUnlessMaxAgeWithValue ==
  MaxAgeHasValue(policy) => C17_ImmutableFloorUnlessMaxAge

\* C17: time_to_live has returned 24 h for a response with immutable and
\* a max-age without a value
C17_BareMaxAgeGetsFloor ==
  /\ out.op = "time_to_live" /\ ~out.panic /\ out.val = 24 * 3600
  /\ Immutable(policy)
  /\ DirectiveValue(policy.res_cc, "max-age") = None
  /\ "max-age" \in DOMAIN policy.res_cc

\* C17: time_to_live has returned 24 h for a response with immutable, no
\* max-age and an Expires that has passed
C17_ImmutableFloorOverPastExpires ==
  /\ out.op = "time_to_live" /\ ~out.panic /\ out.val = 24 * 3600
  /\ Immutable(policy)
  /\ "max-age" \notin DOMAIN policy.res_cc
  /\ get_str(policy.res, "expires") = Some(Date0)

(***************************************************************************)
(* Inputs of SpecHeaders: stored responses with hop-by-hop headers, a      *)
(* Connection header that names other headers, repeated headers, warnings  *)
(* and validators; requests with their own validators, the headers that    *)
(* forbid weak validators, and hop-by-hop headers.                         *)
(***************************************************************************)
StrongETag == "\"s\""
WeakETag == "W/\"w\""

\* the headers every stored response of SpecHeaders has
HopByHopResponse ==
  Hdr("keep-alive", Some("1")) @@ Hdr("te", Some("x"))
    @@ Hdr("date", Some(Date3)) @@ Hdr("x-gone", Some("1"))
    @@ Hdr("x-kept", Some("1")) @@ Hdr("content-length", Some("5"))
    @@ Hdr("warning", Some("199 - old, 299 - kept"))

HeaderInputs ==
  {Input("GET", StoredHeaders, 200,
         HopByHopResponse @@ Hdr("cache-control", Some("public, max-age=2"))
           @@ Hdr("connection", c) @@ ("set-cookie" :> sc),
         0, DefaultOptions) :
     c \in Optional({"x-gone", "X-Gone, warning", "age"}),
     sc \in {<<"a=1">>, <<"a=1", "b=2">>}}
  \cup
  {Input(m, StoredHeaders, 200,
         HopByHopResponse @@ Hdr("cache-control", Some(cc))
           @@ Hdr("etag", e) @@ Hdr("last-modified", lm),
         0, DefaultOptions) :
     m \in {"GET", "POST"}, cc \in {"max-age=2", "no-store"},
     e \in Optional({StrongETag, WeakETag}), lm \in Optional({Date3})}

\* the headers every request of SpecHeaders has
HopByHopRequest ==
  StoredHeaders @@ Hdr("if-range", Some("x")) @@ Hdr("x-custom", Some("1"))
    @@ Hdr("te", Some("trailers"))

HeaderRequests ==
  {[method |-> "GET", uri |-> "/",
    headers |-> f @@ HopByHopRequest @@ inm @@ Hdr("if-modified-since", ims)] :
     inm \in {EmptyHeaders, "if-none-match" :> <<"\"r\"">>,
              "if-none-match" :> <<"W/\"r\",\"q\"">>,
              "if-none-match" :> <<"\"r\"", "\"q\"">>},
     ims \in Optional({Date0}),
     f \in {EmptyHeaders, Hdr("if-match", Some("x")),
            Hdr("accept-ranges", Some("bytes")),
            Hdr("if-unmodified-since", Some(Date0)),
            Hdr("if-match", Some("x")) @@ Hdr("connection", Some("If-Match")),
            ("x-custom" :> <<"1", "2">>) @@ Hdr("connection", Some("warning"))
              @@ Hdr("warning", Some("299 - kept"))}}
  \cup
  {[method |-> m, uri |-> u,
    headers |-> HopByHopRequest @@ inm @@ Hdr("if-modified-since", ims)] :
     m \in {"POST", "HEAD"}, u \in {"/", "/other"},
     inm \in {"if-none-match" :> <<"W/\"r\",\"q\"">>,
              "if-none-match" :> <<"W/\"r\"">>},
     ims \in Optional({Date0})}

InitHeaders ==
  /\ \E i \in HeaderInputs :
       /\ response = i.res
       /\ policy \in NewPolicy(i)
  /\ request \in HeaderRequests
  /\ now = 0
  /\ out = Idle

SpecHeaders == InitHeaders /\ [][Next]_vars

(***************************************************************************)
(* Returned response headers (properties of SpecHeaders)                   *)
(***************************************************************************)
\* the header names the Connection header of the headers lists
ConnectionNames(headers) ==
  {ToAsciiLowercase(get_all_comma(get_all(headers, "connection"))[i]) :
     i \in 1..Len(get_all_comma(get_all(headers, "connection")))}

\* the stored headers that are passed on: not hop-by-hop, not named by
\* Connection, and not Age, Date or Warning, which are written anew
PassedOn(headers) ==
  (DOMAIN headers)
    \ (HOP_BY_HOP_HEADERS \cup ConnectionNames(headers)
         \cup {"age", "date", "warning"})

\* the response headers h returned at time t for the stored response of
\* P: no hop-by-hop header and no header named by the stored Connection
\* (but for Age and Date); Age is the age in whole seconds; Date is t in
\* the form of RFC 2822; every other stored header with all its values
ReturnedHeaderRule(P, t, h) ==
  /\ (DOMAIN h) \cap (HOP_BY_HOP_HEADERS \ {"date"}) = {}
  /\ (DOMAIN h) \cap (ConnectionNames(P.res) \ {"age", "date"}) = {}
  /\ "age" \in DOMAIN h /\ Len(h["age"]) = 1
  /\ ParseU64(h["age"][1]) = Some(age(P, t))
  /\ "date" \in DOMAIN h /\ h["date"] = <<FormatRfc2822(t)>>
  /\ \A n \in PassedOn(P.res) : n \in DOMAIN h /\ h[n] = P.res[n]

\* the same, but of a header with several values only the last is passed
\* on, and a Warning that Connection names is still returned
ReturnedHeaderRuleLastValue(P, t, h) ==
  /\ (DOMAIN h) \cap (HOP_BY_HOP_HEADERS \ {"date"}) = {}
  /\ (DOMAIN h) \cap (ConnectionNames(P.res) \ {"age", "date", "warning"}) = {}
  /\ "age" \in DOMAIN h /\ Len(h["age"]) = 1
  /\ ParseU64(h["age"][1]) = Some(age(P, t))
  /\ "date" \in DOMAIN h /\ h["date"] = <<FormatRfc2822(t)>>
  /\ \A n \in PassedOn(P.res) :
       n \in DOMAIN h /\ h[n] = <<P.res[n][Len(P.res[n])]>>

ReturnedFresh ==
  out.op = "before_request" /\ ~out.panic /\ out.val.kind = "Fresh"

\* C18: the response headers of Fresh, for the stored response at now,
\* and of after_response, for the new policy's response at
\* response_time, have no hop-by-hop header and no header the stored
\* Connection names, have Age equal to the age in whole seconds and Date
\* equal to now in the form of RFC 2822, and have every other stored
\* header unchanged.
C18_ReturnedHeaders ==
  /\ ReturnedFresh =>
       ReturnedHeaderRule(policy, out.at, out.val.response.headers)
  /\ out.op = "after_response" =>
       ReturnedHeaderRule(out.val.policy, out.at, out.val.response.headers)

\* C18 with the last value of every repeated header
C18_ReturnedHeadersLastValue ==
  /\ ReturnedFresh =>
       ReturnedHeaderRuleLastValue(policy, out.at, out.val.response.headers)
  /\ out.op = "after_response" =>
       ReturnedHeaderRuleLastValue(out.val.policy, out.at,
                                   out.val.response.headers)

\* C18: before_request has returned Fresh with one Set-Cookie for a
\* stored response that has two
C18_SetCookieLost ==
  /\ ReturnedFresh
  /\ get_all(policy.res, "set-cookie") = <<"a=1", "b=2">>
  /\ get_all(out.val.response.headers, "set-cookie") = <<"b=2">>

\* C18: after_response has returned, one second after the stored response
\* was received, a new response without the headers its Connection names
C18_NewResponseFiltered ==
  /\ out.op = "after_response" /\ out.at = 1
  /\ out.val.kind = "Modified"
  /\ ConnectionNames(out.val.policy.res) = {"x-gone", "keep-alive"}
  /\ DOMAIN out.val.response.headers
       = {"cache-control", "set-cookie", "warning", "age", "date"}

(***************************************************************************)
(* Validators of the revalidation request (properties of SpecHeaders)      *)
(***************************************************************************)
\* before_request has returned Stale with a revalidation request for a
\* storable policy
ReturnedRevalidation ==
  /\ out.op = "before_request" /\ ~out.panic
  /\ out.val.kind = "Stale" /\ out.val.revalidation
  /\ is_storable(policy)

WeakForbiddingHeaders == {"accept-ranges", "if-match", "if-unmodified-since"}

\* weak validators are forbidden: the stored method is not GET, or the
\* request has one of the headers that forbid them
WeakForbidden(P, headers) ==
  P.method # "GET" \/ (DOMAIN headers) \cap WeakForbiddingHeaders # {}

\* the stored ETag, as a list of one entry or none
StoredETag(P) ==
  IF "etag" \in DOMAIN P.res THEN <<P.res["etag"][1]>> ELSE <<>>

\* the entries of every If-None-Match line of the request, then the
\* stored ETag
AllEntries(P, R) ==
  get_all_comma(get_all(R.headers, "if-none-match")) \o StoredETag(P)

\* the entries of the last If-None-Match line of the request, then the
\* stored ETag
LastLineEntries(P, R) ==
  (IF "if-none-match" \in DOMAIN R.headers
   THEN get_all_comma(<<R.headers["if-none-match"]
                          [Len(R.headers["if-none-match"])]>>)
   ELSE <<>>) \o StoredETag(P)

\* the entries that do not begin with W/, in order
Strong(entries) ==
  LET kept == {i \in 1..Len(entries) : ~StartsWith(entries[i], "W/")}
      nth[k \in 0..Len(entries)] ==
        IF k = 0 THEN 0 ELSE CHOOSE i \in kept : i > nth[k - 1] /\
                               \A j \in kept : j > nth[k - 1] => i <= j
  IN [k \in 1..Cardinality(kept) |-> entries[nth[k]]]

\* the If-None-Match of the headers h has exactly these entries, in this
\* order, and is absent if there are none
IfNoneMatchIs(h, entries) ==
  IF entries = <<>> THEN "if-none-match" \notin DOMAIN h
  ELSE /\ "if-none-match" \in DOMAIN h
       /\ get_all_comma(h["if-none-match"]) = entries

\* the revalidation request where weak validators are allowed: the given
\* entries in If-None-Match, joined by ", " when the stored ETag was added;
\* If-Modified-Since is the request's own, else the stored Last-Modified
WeakAllowedRule(P, R, h, entries) ==
  /\ IfNoneMatchIs(h, entries)
  /\ "etag" \in DOMAIN P.res => h["if-none-match"] = <<join(entries)>>
  /\ get_all(h, "if-modified-since")
       = IF "if-modified-since" \in DOMAIN R.headers
         THEN R.headers["if-modified-since"]
         ELSE IF "last-modified" \in DOMAIN P.res
         THEN <<P.res["last-modified"][1]>>
         ELSE <<>>

\* C19: for a storable policy stored for GET and a request that may
\* revalidate it and has none of Accept-Ranges, If-Match and
\* If-Unmodified-Since, the revalidation request's If-None-Match has the
\* entries of the request's If-None-Match in order, then the stored ETag,
\* joined by commas, and is absent if there are none; its
\* If-Modified-Since is the request's own, else the stored Last-Modified,
\* else absent.
C19_ValidatorsWhenWeakAllowed ==
  (ReturnedRevalidation /\ ~WeakForbidden(policy, request.headers)) =>
    WeakAllowedRule(policy, request, out.val.request.headers,
                    AllEntries(policy, request))

\* C19 with the entries of the request's last If-None-Match line only
C19_ValidatorsWhenWeakAllowedLastLine ==
  (ReturnedRevalidation /\ ~WeakForbidden(policy, request.headers)) =>
    WeakAllowedRule(policy, request, out.val.request.headers,
                    LastLineEntries(policy, request))

\* C19: the revalidation request has only the second of the request's
\* two If-None-Match lines before the stored ETag
C19_FirstLineLost ==
  /\ ReturnedRevalidation /\ ~WeakForbidden(policy, request.headers)
  /\ get_all(request.headers, "if-none-match") = <<"\"r\"", "\"q\"">>
  /\ get_all(policy.res, "etag") = <<WeakETag>>
  /\ get_all(out.val.request.headers, "if-none-match")
       = <<"\"q\", W/\"w\"">>

\* C19: the revalidation request has the request's weak and strong entry,
\* then the stored weak ETag, and the stored Last-Modified
C19_ValidatorsMerged ==
  /\ ReturnedRevalidation /\ ~WeakForbidden(policy, request.headers)
  /\ get_all(out.val.request.headers, "if-none-match")
       = <<"W/\"r\", \"q\", W/\"w\"">>
  /\ "if-modified-since" \notin DOMAIN request.headers
  /\ get_all(out.val.request.headers, "if-modified-since") = <<Date3>>

\* the revalidation request where weak validators are forbidden: no
\* If-Modified-Since, and in If-None-Match the strong ones of the given
\* entries
WeakForbiddenRule(h, entries) ==
  /\ "if-modified-since" \notin DOMAIN h
  /\ IfNoneMatchIs(h, Strong(entries))

\* C20: where weak validators are forbidden, the revalidation request of
\* a storable policy has no If-Modified-Since, and its If-None-Match has
\* the entries of the request's If-None-Match and the stored ETag that do
\* not begin with W/, in order, and is absent if there are none.
C20_NoWeakValidatorsWhenForbidden ==
  (ReturnedRevalidation /\ WeakForbidden(policy, request.headers)) =>
    WeakForbiddenRule(out.val.request.headers, AllEntries(policy, request))

\* C20 with the entries of the request's last If-None-Match line only,
\* and with the forbidding headers looked for after the headers the
\* request's Connection names are removed
C20_NoWeakValidatorsWhenForbiddenLastLine ==
  (/\ ReturnedRevalidation
   /\ WeakForbidden(policy,
         copy_without_hop_by_hop_headers(request.headers))) =>
    WeakForbiddenRule(out.val.request.headers,
                      LastLineEntries(policy, request))

\* C20: the revalidation request for a request with If-Match has lost the
\* first of the request's two strong If-None-Match lines
C20_StrongEntryLost ==
  /\ ReturnedRevalidation
  /\ "if-match" \in DOMAIN request.headers
  /\ "connection" \notin DOMAIN request.headers
  /\ get_all(request.headers, "if-none-match") = <<"\"r\"", "\"q\"">>
  /\ get_all(policy.res, "etag") = <<StrongETag>>
  /\ get_all(out.val.request.headers, "if-none-match") = <<"\"q\", \"s\"">>

\* C20: the revalidation request of a policy stored for POST has neither
\* the caller's If-Modified-Since nor a weak entry: only the strong entry
\* of the request and the strong stored ETag
C20_WeakValidatorsDropped ==
  /\ ReturnedRevalidation
  /\ policy.method = "POST"
  /\ "if-modified-since" \in DOMAIN request.headers
  /\ get_all(request.headers, "if-none-match") = <<"W/\"r\",\"q\"">>
  /\ get_all(out.val.request.headers, "if-none-match") = <<"\"q\", \"s\"">>
  /\ "if-modified-since" \notin DOMAIN out.val.request.headers

(***************************************************************************)
(* Revalidation (properties of SpecHeaders)                                *)
(***************************************************************************)
\* an entity tag without one leading W/
StripWeak(etag) ==
  IF StartsWith(etag, "W/") THEN SubSeq(etag, 3, Len(etag)) ELSE etag

\* the validators of the response res select the stored response of P,
\* whose Last-Modified is taken to be stored_last_modified: a strong new
\* ETag equals the stored ETag without its W/; else, where both have an
\* ETag, the two are equal without their W/; else, where the stored
\* response has Last-Modified, it equals the new one; else neither side
\* has an ETag or a Last-Modified
ValidatorRule(P, res, stored_last_modified) ==
  LET old_etag == get(P.res, "etag")
      new_etag == get(res.headers, "etag")
      new_last_modified == get(res.headers, "last-modified")
  IN IF IsSome(new_etag) /\ ~StartsWith(Unwrap(new_etag), "W/")
     THEN IsSome(old_etag) /\ StripWeak(Unwrap(old_etag)) = Unwrap(new_etag)
     ELSE IF IsSome(old_etag) /\ IsSome(new_etag)
     THEN StripWeak(Unwrap(old_etag)) = StripWeak(Unwrap(new_etag))
     ELSE IF IsSome(stored_last_modified)
     THEN stored_last_modified = new_last_modified
     ELSE /\ ~IsSome(old_etag) /\ ~IsSome(new_etag)
          /\ ~IsSome(new_last_modified)

\* what after_response returns for the response res, given whether the
\* validators match: NotModified exactly for a matching 304, and
\* otherwise Modified with a policy of the new headers and status
AfterResponseRule(o, validators_match) ==
  /\ o.val.kind = "NotModified" <=> (o.res.status = 304 /\ validators_match)
  /\ o.val.kind # "NotModified" => o.val.kind = "Modified"
  /\ (o.res.status # 304 \/ ~validators_match) =>
       /\ o.val.policy.res = o.res.headers
       /\ o.val.policy.status = o.res.status

\* C21: after_response returns NotModified exactly when the response is
\* a 304 whose validators match those of the stored response, and
\* Modified otherwise; where it is no 304 or the validators do not match,
\* the new policy has the headers and the status of the new response.
C21_NotModifiedIffMatching304 ==
  out.op = "after_response" =>
    AfterResponseRule(out, ValidatorRule(policy, out.res,
                                         get(policy.res, "last-modified")))

\* C21 with the new response's Last-Modified in the place of the stored
\* one
C21_NotModifiedIffMatching304NewLastModified ==
  out.op = "after_response" =>
    AfterResponseRule(out, ValidatorRule(policy, out.res,
                                         get(out.res.headers, "last-modified")))

\* C21: after_response has returned NotModified, with the stored headers
\* updated, for a 304 without ETag whose Last-Modified is not the stored
\* one
C21_OtherLastModifiedNotModified ==
  /\ out.op = "after_response" /\ out.val.kind = "NotModified"
  /\ "etag" \notin DOMAIN policy.res /\ "etag" \notin DOMAIN out.res.headers
  /\ get(policy.res, "last-modified") = Some(Date3)
  /\ get(out.res.headers, "last-modified") = Some(Date0)
  /\ out.val.policy.status = 200

\* C21: after_response has returned Modified for a 304 with another
\* strong ETag, with a policy of status 304 and the headers of the 304
C21_MismatchVerbatim ==
  /\ out.op = "after_response" /\ out.val.kind = "Modified"
  /\ out.res.status = 304
  /\ get(policy.res, "etag") = Some(WeakETag)
  /\ get(out.res.headers, "etag") = Some(StrongETag)
  /\ out.val.policy.status = 304
  /\ out.val.policy.res = out.res.headers

\* after_response has returned NotModified
ReturnedNotModified ==
  out.op = "after_response" /\ out.val.kind = "NotModified"

\* the headers of the new policy are the stored headers, each with the
\* value kept(stored values) unless the 304 has the header and may update
\* it; the new policy and the returned response have the stored status
MergeRule(P, o, kept(_)) ==
  /\ DOMAIN o.val.policy.res = DOMAIN P.res
  /\ \A h \in DOMAIN P.res :
       o.val.policy.res[h]
         = IF h \in DOMAIN o.res.headers
              /\ h \notin {"content-length", "content-encoding",
                           "transfer-encoding", "content-range"}
           THEN o.res.headers[h]
           ELSE kept(P.res[h])
  /\ o.val.policy.status = P.status
  /\ o.val.response.status = P.status

AllValues(values) == values

LastValue(values) == <<values[Len(values)]>>

\* C22: when after_response returns NotModified, the new policy's
\* headers have exactly the names of the stored headers; each has the
\* 304's value where the 304 has the header and it is not content-length,
\* content-encoding, transfer-encoding or content-range, and the stored
\* value otherwise; the new policy and the returned response have the
\* stored status.
C22_MergedHeaders ==
  ReturnedNotModified => MergeRule(policy, out, AllValues)

\* C22 with the last value of every repeated stored header
C22_MergedHeadersLastValue ==
  ReturnedNotModified => MergeRule(policy, out, LastValue)

\* C22: after_response has returned NotModified with a policy that has
\* one of the two stored Set-Cookie values
C22_SetCookieLostInMerge ==
  /\ ReturnedNotModified
  /\ get_all(policy.res, "set-cookie") = <<"a=1", "b=2">>
  /\ get_all(out.val.policy.res, "set-cookie") = <<"b=2">>

\* C22: after_response has returned NotModified with the 304's x-kept and
\* Cache-Control, the stored Content-Length, no x-new, and status 200
C22_MergedFromBoth ==
  /\ ReturnedNotModified
  /\ get_all(out.res.headers, "content-length") = <<"9">>
  /\ get_all(out.res.headers, "x-new") = <<"1">>
  /\ get_all(policy.res, "x-kept") = <<"1">>
  /\ get_all(out.val.policy.res, "x-kept") = <<"2">>
  /\ get_all(out.val.policy.res, "cache-control") = <<"max-age=3">>
  /\ get_all(out.val.policy.res, "content-length") = <<"5">>
  /\ "x-new" \notin DOMAIN out.val.policy.res
  /\ out.val.policy.status = 200 /\ out.val.response.status = 200

(***************************************************************************)
(* Failures and frame (properties of Spec)                                 *)
(***************************************************************************)
\* C23: every operation returns: none of is_storable, age, time_to_live,
\* is_stale, before_request and after_response panics, whatever the
\* headers and the time.
C23_NoOperationFails ==
  out.op # "new" => ~out.panic

\* C23: age has panicked for a response whose Age header is the largest
\* integer, one second after the response was received
C23_AgeOverflows ==
  /\ out.op = "age" /\ out.panic
  /\ get_all(policy.res, "age") = <<U64MaxText>>
  /\ out.at = policy.response_time + 1

\* C23 but for the overflow: an operation panics only when the Age
\* header plus the time since response_time is no u64 number of seconds,
\* never is_storable or after_response; and an Age header that is no
\* integer counts as 0
C23_FailsOnlyOnAgeOverflow ==
  /\ (out.op # "new" /\ out.panic) =>
       /\ out.op \notin {"is_storable", "after_response"}
       /\ out.at > policy.response_time
       /\ "age" \in DOMAIN policy.res
       /\ IsSome(ParseU64(policy.res["age"][1]))
       /\ Unwrap(ParseU64(policy.res["age"][1]))
            + (out.at - policy.response_time) > U64_MAX
  /\ (out.op = "age" /\ ~out.panic
       /\ get_all(policy.res, "age") = <<"golden">>)
       => out.val = Max(0, out.at - policy.response_time)

\* the new policy has the options of the policy P it was made by and the
\* response_time argument t
NewPolicyRule(P, r, t) ==
  /\ r.policy.opts = P.opts
  /\ r.policy.response_time = t

\* the rule for the result of after_response and for the results of a
\* second after_response, called on the new policy of the first with a
\* server response at the latest time
SuccessiveRule ==
  out.op = "after_response" =>
    /\ NewPolicyRule(policy, out.val, out.at)
    /\ \A res \in ServerResponses :
         \A r \in after_response(out.val.policy, request, res, MaxNow) :
           NewPolicyRule(out.val.policy, r, MaxNow)

\* two results of after_response that differ at most in the text of the
\* Cache-Control header, of the new policy and of the returned response,
\* and have the same directives
SameButDirectiveText(a, b) ==
  /\ a.kind = b.kind
  /\ [a.policy EXCEPT !.res = remove(@, "cache-control")]
       = [b.policy EXCEPT !.res = remove(@, "cache-control")]
  /\ "cache-control" \in DOMAIN a.policy.res
       <=> "cache-control" \in DOMAIN b.policy.res
  /\ a.response.status = b.response.status
  /\ remove(a.response.headers, "cache-control")
       = remove(b.response.headers, "cache-control")

Received304 ==
  out.op = "after_response" /\ out.res.status = 304

\* C25: for a 304 response, after_response takes the validators to match
\* exactly in these cases, tried in this order: the new ETag is strong and
\* equals the stored ETag without its W/; both have an ETag and the two
\* are equal without their W/; the stored response has Last-Modified and
\* it equals the new one; neither side has an ETag or a Last-Modified.
C25_ValidatorsMatchInOrder ==
  Received304 =>
    (out.val.kind = "NotModified"
       <=> ValidatorRule(policy, out.res, get(policy.res, "last-modified")))

\* C25 with the Last-Modified of the 304 in the place of the stored one:
\* the third case then holds whenever the 304 has Last-Modified, and the
\* fourth asks for no ETag on either side and no Last-Modified in the 304
C25_ValidatorsMatchInOrderNewLastModified ==
  Received304 =>
    (out.val.kind = "NotModified"
       <=> ValidatorRule(policy, out.res,
                         get(out.res.headers, "last-modified")))

\* C25: after_response has returned NotModified for a 304 with
\* Last-Modified and a stored response without any validator
C25_NewLastModifiedAlone ==
  /\ Received304 /\ out.val.kind = "NotModified"
  /\ "etag" \notin DOMAIN policy.res
  /\ "last-modified" \notin DOMAIN policy.res
  /\ "etag" \notin DOMAIN out.res.headers
  /\ "last-modified" \in DOMAIN out.res.headers

\* C25: the first case has decided: a strong new ETag has matched the
\* weak stored ETag of the same text
C25_ETagCases ==
  /\ Received304 /\ "etag" \in DOMAIN policy.res
  /\ "etag" \in DOMAIN out.res.headers
  /\ out.val.kind = "NotModified"
  /\ get(policy.res, "etag") = Some(WeakETag)
  /\ get(out.res.headers, "etag") = Some("\"w\"")

\* the case of the Last-Modified comparison: a 304 without a strong ETag,
\* not both responses with an ETag, the stored one with Last-Modified
LastModifiedCase ==
  /\ Received304
  /\ ~(IsSome(get(out.res.headers, "etag"))
        /\ ~StartsWith(Unwrap(get(out.res.headers, "etag")), "W/"))
  /\ ~("etag" \in DOMAIN policy.res /\ "etag" \in DOMAIN out.res.headers)
  /\ "last-modified" \in DOMAIN policy.res

\* C26: in the case of the Last-Modified comparison the result is
\* NotModified only if the stored Last-Modified equals the one of the 304;
\* a 304 with another Last-Modified or with none yields Modified.
C26_LastModifiedDecides ==
  LastModifiedCase =>
    /\ out.val.kind = "NotModified" =>
         get(policy.res, "last-modified") = get(out.res.headers, "last-modified")
    /\ out.val.kind # "NotModified" => out.val.kind = "Modified"

\* C26 as the code decides the case: NotModified exactly when the 304 has
\* a Last-Modified, whatever its value, or when neither response has an
\* ETag
C26_DecidedByThe304Alone ==
  LastModifiedCase =>
    (out.val.kind = "NotModified"
       <=> \/ "last-modified" \in DOMAIN out.res.headers
           \/ /\ "etag" \notin DOMAIN policy.res
              /\ "etag" \notin DOMAIN out.res.headers)

\* C26: after_response has returned NotModified for a 304 without ETag
\* and without Last-Modified, the stored response having Last-Modified
C26_MissingLastModifiedNotModified ==
  /\ LastModifiedCase /\ out.val.kind = "NotModified"
  /\ "etag" \notin DOMAIN out.res.headers
  /\ "last-modified" \notin DOMAIN out.res.headers
  /\ get(policy.res, "last-modified") = Some(Date3)

\* C26: the stored and the new Last-Modified are equal and the result is
\* NotModified
C26_EqualLastModified ==
  /\ LastModifiedCase /\ out.val.kind = "NotModified"
  /\ get(policy.res, "last-modified") = Some(Date3)
  /\ get(out.res.headers, "last-modified") = Some(Date3)

(***************************************************************************)
(* The request of Stale (properties of SpecHeaders)                        *)
(***************************************************************************)
\* before_request has returned Stale
ReturnedStale ==
  out.op = "before_request" /\ ~out.panic /\ out.val.kind = "Stale"

\* the URI, the Host and the headers named by Vary of the request are
\* those the response is stored for
SameResource(P, req) ==
  /\ req.uri = P.uri
  /\ get(P.req, "host") = get(req.headers, "host")
  /\ vary_matches(P, req)

\* the headers h carry a validator of the stored response: its ETag as an
\* entry of If-None-Match, or its Last-Modified as If-Modified-Since
StoredValidatorAttached(P, h) ==
  \/ /\ "etag" \in DOMAIN P.res
     /\ \E i \in 1..Len(get_all_comma(get_all(h, "if-none-match"))) :
          get_all_comma(get_all(h, "if-none-match"))[i] = P.res["etag"][1]
  \/ /\ "last-modified" \in DOMAIN P.res
     /\ get(h, "if-modified-since") = get(P.res, "last-modified")

\* the request of Stale is the revalidation request where may_revalidate
\* holds, and has no validator of the stored response where it does not
StaleRequestRule(may_revalidate) ==
  ReturnedStale =>
    /\ may_revalidate =>
         out.val.request = revalidation_request(policy, request)
    /\ ~may_revalidate =>
         ~StoredValidatorAttached(policy, out.val.request.headers)

\* C27: the request of Stale is the revalidation request exactly when the
\* request is for the stored URI, Host and Vary headers and its method is
\* the stored method or HEAD; to a request for another URI, Host or Vary
\* headers no stored validator is attached, HEAD or not.
C27_RevalidationOnlyForSameResource ==
  StaleRequestRule(/\ SameResource(policy, request)
                   /\ (request.method = policy.method
                         \/ request.method = "HEAD"))

\* C27 with may_revalidate as request_matches computes it: the request is
\* for the stored resource with the stored method, or its method is HEAD
C27_RevalidationForSameResourceOrHead ==
  StaleRequestRule(\/ SameResource(policy, request)
                      /\ request.method = policy.method
                   \/ request.method = "HEAD")

\* C27: a HEAD request for another URI has got the stored ETag and the
\* stored Last-Modified attached
C27_HeadToOtherUriRevalidates ==
  /\ ReturnedStale
  /\ request.method = "HEAD" /\ request.uri # policy.uri
  /\ get(policy.res, "etag") = Some(StrongETag)
  /\ "if-modified-since" \notin DOMAIN request.headers
  /\ get(out.val.request.headers, "if-none-match")
       = Some("W/\"r\", " \o StrongETag)
  /\ get(out.val.request.headers, "if-modified-since") = Some(Date3)

\* C27: a POST request for another URI has got its own headers back,
\* without a validator of the stored response
C27_PostToOtherUriIsMiss ==
  /\ ReturnedStale
  /\ request.method = "POST" /\ request.uri # policy.uri
  /\ "etag" \in DOMAIN policy.res
  /\ ~StoredValidatorAttached(policy, out.val.request.headers)

Validators == {"if-none-match", "if-modified-since"}

\* the headers h are those of the request R without the hop-by-hop
\* headers and without If-None-Match and If-Modified-Since
MissHeadersRule(R, h) ==
  /\ DOMAIN h = (DOMAIN R.headers) \ (HOP_BY_HOP_HEADERS \cup Validators)
  /\ \A n \in DOMAIN h : h[n] = R.headers[n]

\* C28: the request of Stale has neither If-None-Match nor
\* If-Modified-Since where the stored response is not to be revalidated
\* against: on a miss (may_revalidate is false), where it has the headers
\* of the new request without the hop-by-hop ones and without the two
\* validators, and for a policy that is not storable.
C28_NoValidatorsWithoutRevalidation ==
  ReturnedStale =>
    /\ (~out.val.revalidation \/ ~is_storable(policy)) =>
         (DOMAIN out.val.request.headers) \cap Validators = {}
    /\ ~out.val.revalidation =>
         MissHeadersRule(request, out.val.request.headers)

\* C28 as the code has it: for a policy that is not storable the
\* revalidation request has neither validator; on a miss the request has
\* the headers of the new request, all of them
C28_ValidatorsStrippedIfNotStorable ==
  ReturnedStale =>
    /\ (out.val.revalidation /\ ~is_storable(policy)) =>
         (DOMAIN out.val.request.headers) \cap Validators = {}
    /\ ~out.val.revalidation =>
         out.val.request.headers = request.headers

\* C28: on a miss the request of Stale has the If-None-Match, the
\* If-Modified-Since and the TE header of the new request
C28_MissKeepsValidators ==
  /\ ReturnedStale /\ ~out.val.revalidation
  /\ Validators \subseteq DOMAIN request.headers
  /\ Validators \cup {"te"} \subseteq DOMAIN out.val.request.headers

\* C28: the revalidation request of a policy that is not storable has
\* lost the validators the new request had
C28_NotStorableStripped ==
  /\ ReturnedStale /\ out.val.revalidation /\ ~is_storable(policy)
  /\ Validators \subseteq DOMAIN request.headers
  /\ (DOMAIN out.val.request.headers) \cap Validators = {}

\* before_request has returned Stale with a revalidation request
ReturnedRevalidationRequest ==
  ReturnedStale /\ out.val.revalidation

\* the headers of the request R that a revalidation request passes on:
\* not hop-by-hop, not named by Connection, and not If-Range, a validator
\* or Warning
PassedToOrigin(R) ==
  (DOMAIN R.headers)
    \ (HOP_BY_HOP_HEADERS \cup ConnectionNames(R.headers)
         \cup {"if-range", "warning"} \cup Validators)

\* the headers h of the revalidation request for the request R: none of
\* the names dropped, and every header passed on with the values
\* kept(values of R)
RevalidationHeaderRule(R, h, dropped, kept(_)) ==
  /\ (DOMAIN h) \cap dropped = {}
  /\ \A n \in PassedToOrigin(R) : n \in DOMAIN h /\ h[n] = kept(R.headers[n])

\* C29: the revalidation request has no hop-by-hop header, no header that
\* the Connection header of the new request names, and no If-Range; every
\* other header of the new request that is no validator and not Warning
\* is in it with its value unchanged.
C29_RevalidationHeaders ==
  ReturnedRevalidationRequest =>
    RevalidationHeaderRule(request, out.val.request.headers,
                           HOP_BY_HOP_HEADERS \cup {"if-range"}
                             \cup ConnectionNames(request.headers),
                           AllValues)

\* C29 with the last value of every repeated header, and with Warning
\* left out of the names that Connection removes
C29_RevalidationHeadersLastValue ==
  ReturnedRevalidationRequest =>
    RevalidationHeaderRule(request, out.val.request.headers,
                           HOP_BY_HOP_HEADERS \cup {"if-range"}
                             \cup (ConnectionNames(request.headers)
                                     \ {"warning"}),
                           LastValue)

\* C29: the revalidation request has one of the two values of the
\* request's x-custom header, and the Warning that Connection names
C29_CustomHeaderCollapsed ==
  /\ ReturnedRevalidationRequest
  /\ get_all(request.headers, "x-custom") = <<"1", "2">>
  /\ get_all(out.val.request.headers, "x-custom") = <<"2">>
  /\ "warning" \in ConnectionNames(request.headers)
  /\ get_all(out.val.request.headers, "warning") = <<"299 - kept">>

\* C29: the revalidation request has lost TE, If-Range and the If-Match
\* that Connection names, and has kept x-custom
C29_RevalidationFiltered ==
  /\ ReturnedRevalidationRequest
  /\ {"te", "if-range", "if-match", "connection"} \subseteq DOMAIN request.headers
  /\ ConnectionNames(request.headers) = {"if-match"}
  /\ (DOMAIN out.val.request.headers)
       \cap {"te", "if-range", "if-match", "connection"} = {}
  /\ get_all(out.val.request.headers, "x-custom") = <<"1">>

(***************************************************************************)
(* The lifetime from Expires (properties of SpecLifetime)                  *)
(***************************************************************************)
\* the lifetime comes from Expires: no rule forces it to zero, there is
\* no max-age and no s-maxage that applies, and there is an Expires
ExpiresCase(P) ==
  /\ NoZeroRule(P)
  /\ "max-age" \notin DOMAIN P.res_cc
  /\ ~(P.opts.shared /\ "s-maxage" \in DOMAIN P.res_cc)
  /\ "expires" \in DOMAIN P.res

\* the Date header as a timestamp, if the response has one that parses
ParsedDate(P) ==
  IF "date" \in DOMAIN P.res THEN ParseRfc2822(P.res["date"][1]) ELSE None

\* the lifetime of a response with Expires, given the timestamp of
\* Expires where it parses and the server date: 0 for an Expires that
\* does not parse, else what is left from the server date to Expires, no
\* less than 0 and no less than the floor of an immutable response
ExpiresLifetime(P, expires, server_date) ==
  IF ~IsSome(ParseRfc2822(P.res["expires"][1])) THEN 0
  ELSE Max(IF "immutable" \in DOMAIN P.res_cc
           THEN P.opts.immutable_min_time_to_live ELSE 0,
           Max(0, expires - server_date))

\* the policy has the lifetime, and time_to_live returns what is left of
\* it
HasLifetime(lifetime) ==
  /\ max_age(policy) = lifetime
  /\ (out.op = "time_to_live" /\ ~out.panic) =>
       out.val = Max(0, lifetime - age(policy, out.at))

C30_RelativeToDate ==
  /\ out.op = "time_to_live" /\ ~out.panic /\ out.val = 27
  /\ out.at = policy.response_time
  /\ ExpiresCase(policy)
  /\ get_str(policy.res, "expires") = Some(Date30)
  /\ get_str(policy.res, "date") = Some(Date3)

(***************************************************************************)
(* Pragma (properties of SpecLifetime)                                     *)
(***************************************************************************)
\* the headers have a Pragma that contains no-cache
HasPragmaNoCache(headers) ==
  "pragma" \in DOMAIN headers /\ Contains(headers["pragma"][1], "no-cache")

\* the policy that the response of P without its Pragma header gives
WithoutPragma(P) ==
  from_details(P.uri, P.method, P.status, P.req, remove(P.res, "pragma"),
               P.response_time, P.opts, <<>>)

\* the rule for Pragma, given what is_stale does for a lifetime of 0:
\* without a Cache-Control header a Pragma with no-cache gives the
\* lifetime 0; with a Cache-Control header the lifetime is that of the
\* response without Pragma; the directive no-cache gives the lifetime 0
PragmaRule(always_stale) ==
  /\ (HasPragmaNoCache(policy.res) /\ "cache-control" \notin DOMAIN policy.res)
       => (max_age(policy) = 0 /\ always_stale)
  /\ "cache-control" \in DOMAIN policy.res
       => max_age(policy) = max_age(WithoutPragma(policy))
  /\ "no-cache" \in DOMAIN policy.res_cc
       => (max_age(policy) = 0 /\ always_stale)

\* C31: a response Pragma with no-cache counts as the directive no-cache
\* (lifetime 0, is_stale true at every time) exactly when the response has
\* no Cache-Control header; with a Cache-Control header, even an empty
\* one, the lifetime is computed as without the Pragma; a response with
\* the directive no-cache has the lifetime 0.
C31_PragmaOnlyWithoutCacheControl ==
  PragmaRule(out.op = "is_stale" => (~out.panic /\ out.val))

\* C31 for the calls of is_stale that return
C31_PragmaOnlyWithoutCacheControlWhereReturned ==
  PragmaRule((out.op = "is_stale" /\ ~out.panic) => out.val)

\* C31: is_stale has panicked for a response with Pragma: no-cache, no
\* Cache-Control and the largest Age
C31_PragmaStaleOverflows ==
  /\ out.op = "is_stale" /\ out.panic
  /\ HasPragmaNoCache(policy.res)
  /\ "cache-control" \notin DOMAIN policy.res
  /\ get_all(policy.res, "age") = <<U64MaxText>>

\* C31: is_stale has returned true at the time the response was received
\* for Pragma: no-cache without Cache-Control and an Expires in the
\* future, and time_to_live is 0
C31_PragmaStale ==
  /\ out.op = "is_stale" /\ ~out.panic /\ out.val
  /\ out.at = policy.response_time
  /\ HasPragmaNoCache(policy.res)
  /\ DOMAIN policy.res = {"pragma", "expires"}
  /\ time_to_live(policy, out.at) = 0

\* C31: is_stale has returned false for Pragma: no-cache next to an empty
\* Cache-Control header and an Expires in the future
C31_PragmaIgnored ==
  /\ out.op = "is_stale" /\ ~out.panic /\ ~out.val
  /\ HasPragmaNoCache(policy.res)
  /\ get_all(policy.res, "cache-control") = <<"">>
  /\ max_age(policy) = 2

(***************************************************************************)
(* ignore_cargo_cult (properties of SpecStore)                             *)
(***************************************************************************)
\* the directives of the response as it was received
ReceivedDirectives ==
  parse_cache_control(get_all(response, "cache-control"))

\* the rewrite applies: the option is set and the response has both
\* pre-check and post-check
CargoCultApplies ==
  /\ policy.opts.ignore_cargo_cult
  /\ {"pre-check", "post-check"} \subseteq DOMAIN ReceivedDirectives

\* the received directives without the five that the rewrite removes
RemainingDirectives ==
  [k \in (DOMAIN ReceivedDirectives) \ CargoCultDirectives |->
     ReceivedDirectives[k]]

\* the policy of a cache without the option for the response that has the
\* stored Cache-Control header, no Expires and no Pragma
PolicyOfRemaining ==
  from_details(policy.uri, policy.method, policy.status, policy.req,
               remove(remove(insert(response, "cache-control",
                                    policy.res["cache-control"][1]),
                             "expires"), "pragma"),
               policy.response_time,
               [policy.opts EXCEPT !.ignore_cargo_cult = FALSE], <<>>)

\* C32: with ignore_cargo_cult and both pre-check and post-check in the
\* response, the policy's directives are the received ones without
\* pre-check, post-check, no-cache, no-store and must-revalidate, the
\* stored Cache-Control header has exactly these directives, the stored
\* Expires and Pragma are removed and the other headers kept, and
\* storability and lifetime are those of the remaining directives;
\* otherwise the stored headers are the received ones and the directives
\* those of the received Cache-Control.
C32_CargoCultRewrite ==
  IF CargoCultApplies
  THEN /\ policy.res_cc = RemainingDirectives
       /\ Len(get_all(policy.res, "cache-control")) = 1
       /\ parse_cache_control(get_all(policy.res, "cache-control"))
            = RemainingDirectives
       /\ DOMAIN policy.res
            = ((DOMAIN response) \ {"expires", "pragma"}) \cup {"cache-control"}
       /\ \A n \in (DOMAIN policy.res) \ {"cache-control"} :
            policy.res[n] = response[n]
       /\ is_storable(policy) = is_storable(PolicyOfRemaining)
       /\ max_age(policy) = max_age(PolicyOfRemaining)
       /\ (out.op = "is_storable" => out.val = is_storable(PolicyOfRemaining))
  ELSE /\ policy.res = response
       /\ policy.res_cc = ReceivedDirectives

\* C32: is_storable has returned true, and the lifetime is 2 s, for a
\* response with no-store, no-cache, max-age=2, Expires and Pragma next
\* to pre-check and post-check
C32_PoisonRemoved ==
  /\ out.op = "is_storable" /\ out.val
  /\ CargoCultApplies
  /\ {"no-store", "no-cache", "max-age"} \subseteq DOMAIN ReceivedDirectives
  /\ {"expires", "pragma"} \subseteq DOMAIN response
  /\ policy.res_cc = ("max-age" :> Some("2"))
  /\ policy.res = ("cache-control" :> <<"max-age=2">>) @@ ("x-kept" :> <<"1">>)
  /\ max_age(policy) = 2

\* C32: the stored Cache-Control header lists the three directives left
\* of five, the value with a space in quotes
C32_RemainingRewritten ==
  /\ out.op = "is_storable" /\ CargoCultApplies
  /\ policy.res["cache-control"] = <<"custom, foo=\"a b\", max-age=100">>

\* C32: with the option and pre-check alone, is_storable has returned
\* false for a response with no-store, whose headers are untouched
C32_OnlyPreCheck ==
  /\ out.op = "is_storable" /\ ~out.val
  /\ policy.opts.ignore_cargo_cult
  /\ "pre-check" \in DOMAIN policy.res_cc
  /\ "no-store" \in DOMAIN policy.res_cc
  /\ "expires" \in DOMAIN policy.res

(***************************************************************************)
(* Inputs of SpecWarning: stored responses that are older than a day, with *)
(* and without an explicit expiration and with a floor of one and of two   *)
(* days for immutable responses; stored responses and requests with        *)
(* Warning entries of every kind.                                          *)
(***************************************************************************)
LongFloor == [DefaultOptions EXCEPT !.immutable_min_time_to_live = 48 * 3600]

OldInputs ==
  {Input("GET", StoredHeaders, 200,
         Hdr("cache-control", Some(cc)) @@ Hdr("age", Some(a))
           @@ Hdr("expires", e),
         0, opts) :
     cc \in {"immutable", "max-age=200000", "immutable, s-maxage=200000"},
     a \in {"86400", "86401"}, e \in Optional({Date3}),
     opts \in {DefaultOptions, LongFloor,
               [LongFloor EXCEPT !.shared = FALSE]}}

WarningLines ==
  {<<"199 - a, 299 - b">>, <<" 1000 x ,214 c, 299 - b">>, <<"110 - stale">>,
   <<"299 - b", "199 a, 214 c">>, <<"112 x , 113 y">>}

WarningInputs ==
  {Input("GET", StoredHeaders, 200,
         Hdr("cache-control", Some("max-age=2")) @@ ("warning" :> w),
         0, DefaultOptions) :
     w \in WarningLines}

WarningRequests ==
  {Get(StoredHeaders @@ Hdr("cache-control", cc) @@ w) :
     cc \in Optional({"max-stale"}),
     w \in {EmptyHeaders} \cup {"warning" :> l : l \in WarningLines}
            \cup {"warning" :> <<"113 - \"rfc7234 5.5.4\", 299 - r">>}}

InitWarning ==
  /\ \E i \in OldInputs \cup WarningInputs :
       /\ response = i.res
       /\ policy \in NewPolicy(i)
  /\ request \in WarningRequests
  /\ now = 0
  /\ out = Idle

SpecWarning == InitWarning /\ [][Next]_vars

(***************************************************************************)
(* Warnings (properties of SpecWarning)                                    *)
(***************************************************************************)
\* the Warning entries of the headers, of every line, trimmed
WarningEntries(h) == get_all_comma(get_all(h, "warning"))

\* the headers have a Warning entry with the code 113
Has113(h) ==
  \E i \in 1..Len(WarningEntries(h)) : StartsWith(WarningEntries(h)[i], "113")

\* the response of P is older than 24 h at t, P has no explicit
\* expiration (no max-age, no Expires, in a shared cache no s-maxage),
\* and its lifetime is over 24 h
HeuristicallyFreshAfterADay(P, t) ==
  /\ age(P, t) > 24 * 3600
  /\ "max-age" \notin DOMAIN P.res_cc
  /\ "expires" \notin DOMAIN P.res
  /\ ~(P.opts.shared /\ "s-maxage" \in DOMAIN P.res_cc)
  /\ max_age(P) > 24 * 3600

\* C33: the headers of a cached response, from before_request for the
\* stored policy and from after_response for the new one, have a Warning
\* 113 exactly when the age is over 24 h, the policy has no explicit
\* expiration and the lifetime is over 24 h; a revalidation request has
\* no Warning 113.
C33_Warning113 ==
  /\ ReturnedFresh =>
       (Has113(out.val.response.headers)
          <=> HeuristicallyFreshAfterADay(policy, out.at))
  /\ out.op = "after_response" =>
       (Has113(out.val.response.headers)
          <=> HeuristicallyFreshAfterADay(out.val.policy, out.at))
  /\ ReturnedRevalidationRequest => ~Has113(out.val.request.headers)

\* C33: a response kept for two days as immutable, one second older than
\* a day, is returned with Warning 113 - "rfc7234 5.5.4"
C33_WarningAdded ==
  /\ ReturnedFresh /\ out.at = 1
  /\ get_all(policy.res, "age") = <<"86400">>
  /\ policy.res_cc = ("immutable" :> None)
  /\ max_age(policy) = 48 * 3600
  /\ get_all(out.val.response.headers, "warning")
       = <<"113 - \"rfc7234 5.5.4\"">>

\* C33: no warning for a response with max-age, though its age and its
\* lifetime are over a day
C33_NoWarningWithMaxAge ==
  /\ ReturnedFresh
  /\ age(policy, out.at) > 24 * 3600 /\ max_age(policy) > 24 * 3600
  /\ "max-age" \in DOMAIN policy.res_cc
  /\ "warning" \notin DOMAIN out.val.response.headers

\* C33: no warning for a stale response whose lifetime is a day, served
\* to a request with max-stale
C33_NoWarningForADay ==
  /\ ReturnedFresh
  /\ age(policy, out.at) > 24 * 3600 /\ max_age(policy) = 24 * 3600
  /\ policy.res_cc = ("immutable" :> None)
  /\ "expires" \notin DOMAIN policy.res
  /\ "warning" \notin DOMAIN out.val.response.headers

\* C33: the revalidation request has lost the 113 warning of the new
\* request
C33_RequestWarningDropped ==
  /\ ReturnedRevalidationRequest
  /\ Has113(request.headers)
  /\ get_all(out.val.request.headers, "warning") = <<"299 - r">>

\* the entry does not begin with the character 1
NotInformational(entry) == ~StartsWith(entry, "1")

\* the Warning of the headers h made from the headers from: the entries
\* of from that do not begin with 1, in their order, then the added
\* ones; no Warning header where there is none
WarningRule(from, h, added) ==
  /\ WarningEntries(h) = SelectSeq(WarningEntries(from), NotInformational) \o added
  /\ "warning" \in DOMAIN h
       <=> SelectSeq(WarningEntries(from), NotInformational) \o added # <<>>

\* the warning that cached_response adds for P at t
Added113(P, t) ==
  IF HeuristicallyFreshAfterADay(P, t)
  THEN <<"113 - \"rfc7234 5.5.4\"">> ELSE <<>>

\* C34: the Warning of a cached response and of a revalidation request
\* has the entries of the stored response, or of the new request, whose
\* trimmed text does not begin with 1, in their order, and is absent
\* where none is left.
C34_WarningFilter ==
  /\ ReturnedFresh =>
       WarningRule(policy.res, out.val.response.headers,
                   Added113(policy, out.at))
  /\ out.op = "after_response" =>
       WarningRule(out.val.policy.res, out.val.response.headers,
                   Added113(out.val.policy, out.at))
  /\ ReturnedRevalidationRequest =>
       WarningRule(request.headers, out.val.request.headers, <<>>)

\* C34: of the stored entries 1000 x, 214 c and 299 - b the cached
\* response has the last two
C34_FourDigitCodeDropped ==
  /\ ReturnedFresh
  /\ get_all(policy.res, "warning") = <<" 1000 x ,214 c, 299 - b">>
  /\ get_all(out.val.response.headers, "warning") = <<"214 c, 299 - b">>

\* C34: the revalidation request has the entries of both Warning lines
\* of the new request that do not begin with 1, in one line
C34_RequestLinesFiltered ==
  /\ ReturnedRevalidationRequest
  /\ get_all(request.headers, "warning") = <<"299 - b", "199 a, 214 c">>
  /\ get_all(out.val.request.headers, "warning") = <<"299 - b, 214 c">>

\* C34: the cached response has no Warning header, all stored entries
\* beginning with 1
C34_WarningAbsent ==
  /\ ReturnedFresh
  /\ get_all(policy.res, "warning") = <<"112 x , 113 y">>
  /\ "warning" \notin DOMAIN out.val.response.headers

(***************************************************************************)
(* A max-stale that is no integer (properties of Spec)                    *)
(***************************************************************************)

\* the request's max-stale has a value that does not parse as an integer
UnparseableMaxStale(R) ==
  /\ IsSome(DirectiveValue(RequestDirectives(R), "max-stale"))
  /\ DirectiveU64(RequestDirectives(R), "max-stale") = None

\* C35: for a request whose max-stale is no integer, before_request does
\* not return Fresh for a policy that is stale at that time.
C35_UnparseableMaxStaleRefused ==
  (ReturnedFresh /\ UnparseableMaxStale(request)) =>
    ~is_stale(policy, out.at)

\* C35: before_request has returned Fresh to max-stale=x for a policy
\* that is stale
C35_StaleServedToUnparseableMaxStale ==
  /\ ReturnedFresh
  /\ DirectiveValue(RequestDirectives(request), "max-stale") = Some("x")
  /\ is_stale(policy, out.at)

\* C35, as the code has it: a max-stale that is no integer admits any
\* staleness, as one without a value does
C35_UnparseableMaxStaleAdmitsAll ==
  (/\ out.op = "before_request" /\ ~out.panic
   /\ UnparseableMaxStale(request)
   /\ StaleWithMaxStale(policy, request, out.at)) =>
    out.val.kind = "Fresh"

(***************************************************************************)
(* The specification of the Cache-Control parser and formatter: the        *)
(* policies of responses whose Cache-Control repeats directives, with the  *)
(* same and with different values, quoted and not, in one line and in      *)
(* two, or has values that are empty or have spaces, '=' or quotes; each   *)
(* also as a cache with ignore_cargo_cult receives it with pre-check and   *)
(* post-check in a further line, which stores the formatted directives.    *)
(***************************************************************************)
ParseLines ==
  {<<"max-age=2, max-age=2">>,
   <<"max-age=\"5\", max-age=\"5\"">>,
   <<"max-age=2, max-age=\"2\"">>,
   <<"max-age=1, max-age=2">>,
   <<"max-age=2", "public, max-age=1">>,
   <<"public, max-age=2", "public">>,
   <<"public, public=">>,
   <<"must-revalidate=x, max-age=1, max-age=3">>,
   <<"foo=\"\", max-age=2">>,
   <<"foo=\" a \", max-age=2">>,
   <<"foo=a=b, bar=\"x=y\"">>,
   <<"foo=\"a b\" , private">>,
   <<" , =x,max-age=3 ">>}

ParseInputs ==
  {Input("GET", StoredHeaders, 200, "cache-control" :> l, 0, DefaultOptions) :
     l \in ParseLines}
  \cup
  {Input("GET", StoredHeaders, 200,
         "cache-control" :> (l \o <<"pre-check=0, post-check=0">>),
         0, IgnoreCargoCult) : l \in ParseLines}

InitParse ==
  /\ \E i \in ParseInputs :
       /\ response = i.res
       /\ policy \in NewPolicy(i)
  /\ request \in LifetimeRequests
  /\ now = 0
  /\ out = Idle

SpecParse == InitParse /\ [][Next]_vars

(***************************************************************************)
(* Repeated directives (properties of SpecParse)                           *)
(***************************************************************************)
\* the directives of the parts, as written: name and trimmed value
RECURSIVE PartOccurrences(_)
PartOccurrences(parts) ==
  IF parts = <<>> THEN <<>>
  ELSE (IF Len(Trim(SplitN2(Head(parts), "=").k)) = 0 THEN <<>>
        ELSE <<[k |-> Trim(SplitN2(Head(parts), "=").k),
                v |-> IF IsSome(SplitN2(Head(parts), "=").v)
                      THEN Some(Trim(Unwrap(SplitN2(Head(parts), "=").v)))
                      ELSE None]>>)
       \o PartOccurrences(Tail(parts))

\* the directives of the header's lines, in their order
RECURSIVE Occurrences(_)
Occurrences(values) ==
  IF values = <<>> THEN <<>>
  ELSE PartOccurrences(Split(Head(values), ","))
         \o Occurrences(Tail(values))

\* the directives of the received Cache-Control, as written
Written == Occurrences(get_all(response, "cache-control"))

\* a value without the quotes around it
Unquoted(v) ==
  IF IsSome(v) THEN Some(TrimMatches(Unwrap(v), "\"")) ELSE None

\* the first directive of that name
FirstOccurrence(occ, k) ==
  occ[CHOOSE i \in 1..Len(occ) :
        occ[i].k = k /\ \A j \in 1..(i - 1) : occ[j].k # k]

\* some name occurs twice with values that differ(v, w)
Repeated(occ, differ(_, _)) ==
  \E i, j \in 1..Len(occ) :
    i < j /\ occ[i].k = occ[j].k /\ differ(occ[i].v, occ[j].v)

\* the values differ, with or without the quotes around them
ValuesDiffer(v, w) == Unquoted(v) # Unquoted(w)

\* the later value, as written, is not the first without its quotes
LaterTextDiffers(v, w) == Unquoted(v) # w

\* the parsed directives cc of the occurrences: must-revalidate is there
\* exactly if written or if a name is repeated with values that differ,
\* and each of the names in keep has the value of its first occurrence
ParserRule(occ, cc, differ(_, _), keep) ==
  /\ DOMAIN cc \ {"must-revalidate"}
       = {occ[i].k : i \in 1..Len(occ)} \ {"must-revalidate"}
  /\ "must-revalidate" \in DOMAIN cc
       <=> \/ \E i \in 1..Len(occ) : occ[i].k = "must-revalidate"
           \/ Repeated(occ, differ)
  /\ \A k \in keep \cap DOMAIN cc :
       cc[k] = Unquoted(FirstOccurrence(occ, k).v)

\* C36: the parsed directives have a must-revalidate that is not written
\* in the header exactly if some name occurs twice with two different
\* values, with or without quotes, and every directive has the value of
\* its first occurrence.
C36_MustRevalidateIffConflict ==
  ParserRule(Written, ReceivedDirectives, ValuesDiffer,
             {Written[i].k : i \in 1..Len(Written)})

\* C36: max-age="5", max-age="5" is parsed with must-revalidate
C36_SameQuotedValueConflicts ==
  /\ get_all(response, "cache-control") = <<"max-age=\"5\", max-age=\"5\"">>
  /\ policy.res_cc = ("max-age" :> Some("5")) @@ ("must-revalidate" :> None)
  /\ out.op = "is_stale" /\ ~out.panic /\ ~out.val

\* C36, as the code has it: a later occurrence conflicts if its text, with
\* its quotes, is not the first value without them; the first value is
\* kept, but for a written must-revalidate, whose value a conflict removes
C36_MustRevalidateIffLaterTextDiffers ==
  /\ ParserRule(Written, ReceivedDirectives, LaterTextDiffers,
                {Written[i].k : i \in 1..Len(Written)} \ {"must-revalidate"})
  /\ ~policy.opts.ignore_cargo_cult => policy.res_cc = ReceivedDirectives

\* C36: max-age=2, max-age=2 is parsed without must-revalidate, and
\* max-age=1, max-age=2 with it and the first value
C36_RepeatedUnquoted ==
  \/ /\ get_all(response, "cache-control") = <<"max-age=2, max-age=2">>
     /\ policy.res_cc = ("max-age" :> Some("2"))
     /\ out.op = "is_stale" /\ out.at = 1 /\ ~out.panic /\ ~out.val
  \/ /\ get_all(response, "cache-control") = <<"max-age=1, max-age=2">>
     /\ policy.res_cc = ("max-age" :> Some("1")) @@ ("must-revalidate" :> None)
     /\ out.op = "is_stale" /\ out.at = 1 /\ ~out.panic /\ out.val

(***************************************************************************)
(* Formatting and parsing again (properties of SpecParse)                  *)
(***************************************************************************)
\* C37: the directives parsed of a Cache-Control without conflicting
\* repetitions, formatted in any order and parsed again, are the same
\* directives; so the Cache-Control that a cache with ignore_cargo_cult
\* stores parses to the directives of its policy.
C37_FormatParseRoundTrip ==
  ~Repeated(Written, ValuesDiffer) =>
    /\ \A order \in IterationOrders(DOMAIN ReceivedDirectives) :
         parse_cache_control(<<format_cache_control(ReceivedDirectives, order)>>)
           = ReceivedDirectives
    /\ CargoCultApplies =>
         parse_cache_control(get_all(policy.res, "cache-control"))
           = policy.res_cc

\* C37: the value " a " of foo is stored in quotes by a cache with
\* ignore_cargo_cult
C37_QuotedSpacesStored ==
  /\ get_all(response, "cache-control")
       = <<"foo=\" a \", max-age=2", "pre-check=0, post-check=0">>
  /\ get_all(policy.res, "cache-control") = <<"max-age=2, foo=\" a \"">>
  /\ policy.res_cc = ("foo" :> Some(" a ")) @@ ("max-age" :> Some("2"))
  /\ out.op = "time_to_live" /\ ~out.panic /\ out.val = 2

\* C37: the empty value of foo is stored as a pair of quotes, and the
\* value a=b without quotes is stored in quotes
C37_EmptyAndEqualsStored ==
  \/ /\ get_all(policy.res, "cache-control") = <<"foo=\"\", max-age=2">>
     /\ policy.res_cc = ("foo" :> Some("")) @@ ("max-age" :> Some("2"))
  \/ /\ get_all(response, "cache-control")
          = <<"foo=a=b, bar=\"x=y\"", "pre-check=0, post-check=0">>
     /\ get_all(policy.res, "cache-control") = <<"foo=\"a=b\", bar=\"x=y\"">>

(***************************************************************************)
(* The age after a revalidation (properties of Spec)                       *)
(***************************************************************************)
\* the seconds of the Age header of the headers, 0 without one
AgeOf(headers) ==
  IF "age" \in DOMAIN headers /\ IsSome(ParseU64(headers["age"][1]))
  THEN Unwrap(ParseU64(headers["age"][1]))
  ELSE 0

\* a stale policy has received a matching 304
Revalidated ==
  /\ ReturnedNotModified /\ out.res.status = 304
  /\ is_stale(policy, out.at)

\* C38: when a stale policy has received a matching 304 at time t, the age
\* of the new policy at t is the Age of the 304, 0 if it has none, so that
\* a new policy whose lifetime is greater is not stale at t.
C38_AgeRestartsAt304 ==
  Revalidated =>
    /\ age(out.val.policy, out.at) = AgeOf(out.res.headers)
    /\ max_age(out.val.policy) > AgeOf(out.res.headers)
         => ~is_stale(out.val.policy, out.at)

\* C38: a stale policy has received a matching 304 without Age, and the
\* new policy, of lifetime 1 s, has the age of 1 s of the stored Age
\* header and is stale at once
C38_StoredAgeCarriedOver ==
  /\ Revalidated
  /\ "age" \notin DOMAIN out.res.headers
  /\ get(policy.res, "age") = Some("1")
  /\ age(out.val.policy, out.at) = 1
  /\ max_age(out.val.policy) = 1
  /\ is_stale(out.val.policy, out.at)

\* C38, as the code has it: the new policy's age at t is that of the Age
\* header which the merge of the headers leaves: of the 304 if both
\* responses have one, else of the stored response
C38_AgeOfMergedHeaders ==
  Revalidated =>
    age(out.val.policy, out.at)
      = IF "age" \in DOMAIN policy.res /\ "age" \in DOMAIN out.res.headers
        THEN AgeOf(out.res.headers)
        ELSE AgeOf(policy.res)

\* C38: a stale policy without Age has received a matching 304 with Age: 1,
\* and the new policy has the age 0
C38_NewAgeDropped ==
  /\ Revalidated
  /\ get(out.res.headers, "age") = Some("1")
  /\ "age" \notin DOMAIN policy.res
  /\ age(out.val.policy, out.at) = 0

(***************************************************************************)
(* The method and URI of the request of Stale (properties of Spec)         *)
(***************************************************************************)
\* C39: the request that before_request returns in Stale has the method
\* and the URI of the new request, whether the new request matches the
\* policy, revalidates it with HEAD, or misses it.
C39_StaleRequestIsNewRequest ==
  ReturnedStale =>
    /\ out.val.request.method = request.method
    /\ out.val.request.uri = request.uri

\* C39: before_request has returned, for a HEAD request to a policy stored
\* for GET, a revalidation request with the method GET
C39_HeadRevalidatedAsGet ==
  /\ ReturnedStale /\ out.val.revalidation /\ ~out.val.matches
  /\ request.method = "HEAD" /\ policy.method = "GET"
  /\ request.uri = policy.uri
  /\ out.val.request.method = "GET"

\* C39: before_request has returned, for a request of another URI, a
\* request with the stored URI and the new request's headers
C39_MissSentToStoredUri ==
  /\ ReturnedStale /\ ~out.val.revalidation /\ ~out.val.matches
  /\ request.uri = "/other" /\ policy.uri = "/"
  /\ out.val.request.uri = "/"
  /\ out.val.request.headers = request.headers

\* C39, as the code has it: the request of Stale has the method and the
\* URI that the policy is stored for, which are those of the new request
\* where it matches
C39_StaleRequestIsStoredRequest ==
  ReturnedStale =>
    /\ out.val.request.method = policy.method
    /\ out.val.request.uri = policy.uri
    /\ out.val.matches =>
         policy.method = request.method /\ policy.uri = request.uri

(***************************************************************************)
(* A 304 that does not match (properties of SpecHeaders)                   *)
(***************************************************************************)
\* after_response has received a 304 whose validators do not match those
\* of the stored response
Mismatched304 ==
  Received304 /\ ~ValidatorRule(policy, out.res,
                                get(policy.res, "last-modified"))

\* the new policy has the status 304, is not storable and has no
\* lifetime: its time_to_live is 0
Unstorable304(P, t) ==
  /\ P.status = 304
  /\ ~is_storable(P)
  /\ max_age(P) = 0
  /\ time_to_live(P, t) = 0

\* C40: for a 304 whose validators do not match, after_response returns
\* Modified with a new policy of status 304, which is not storable and
\* whose time_to_live is 0.
C40_Mismatched304NotStorable ==
  Mismatched304 =>
    /\ out.val.kind = "Modified"
    /\ Unstorable304(out.val.policy, out.at)

\* C40: after_response has returned NotModified, with a storable policy
\* of the stored status, for a 304 without ETag whose Last-Modified is
\* not the stored one
C40_OtherLastModifiedStorable ==
  /\ Mismatched304 /\ out.val.kind = "NotModified"
  /\ "etag" \notin DOMAIN policy.res
  /\ get(policy.res, "last-modified") # get(out.res.headers, "last-modified")
  /\ out.val.policy.status = 200
  /\ is_storable(out.val.policy)

\* C40, where after_response returns Modified for a 304: the new policy
\* has the status 304 and is not storable, whatever the 304 says
C40_Modified304NotStorable ==
  (Received304 /\ out.val.kind = "Modified") =>
    Unstorable304(out.val.policy, out.at)

\* C40: after_response has returned Modified for a 304 with max-age=3
\* whose ETag is not the stored one, with a new policy for GET that has
\* the directives of the 304 and is not storable
C40_Modified304WithMaxAge ==
  /\ Received304 /\ out.val.kind = "Modified"
  /\ get(policy.res, "etag") = Some(WeakETag)
  /\ get(out.res.headers, "etag") = Some(StrongETag)
  /\ out.val.policy.method = "GET"
  /\ "max-age" \in DOMAIN out.val.policy.res_cc
  /\ "no-store" \notin DOMAIN out.val.policy.res_cc
  /\ "no-store" \notin DOMAIN out.val.policy.req_cc
  /\ ~is_storable(out.val.policy)

====
